---- MODULE Spec2Model ----
(***************************************************************************)
(* Model of the voter fraud detection engine, src/src/duplicate_detector.py *)
(* (class DuplicateDetectorFinal).                                          *)
(*                                                                          *)
(* A cell of the pandas frame is a tuple: <<>> is NaN / None (pd.isna), and *)
(* <<v>> is the present value v.  Percentages are fixed-point integers in   *)
(* thousandths of a percent (Pct units per percent); a face distance is a   *)
(* fixed-point integer with One units per 1.0.                              *)
(***************************************************************************)
EXTENDS Integers, Sequences, FiniteSets, TLC

VARIABLES csv,          \* rows of the data_csv file read by __init__
          photos,       \* the files behind face_path: path -> image, or unreadable
          df,           \* self.df after __init__
          scenario_1,   \* last result of detect_scenario_1_fake_details
          scenario_2,   \* last result of detect_scenario_2_fake_face
          scenario_2b,  \* last result of detect_exact_duplicate_photos
          scenario_3,   \* last result of detect_address_anomalies
          all_frauds,   \* last result of detect_all_frauds
          threshold,    \* suspicious_threshold of the last address call
          outcome,      \* how the last call of each method ended
          again,        \* detect_all_frauds was called on a detector that
                        \* had already run it
          summary,      \* the summary the last detect_all_frauds printed
          workers,      \* the four matchers run as concurrent workers
          extracted_cards, \* the files of data/extracted_cards
          total_cards,  \* total_cards of the last run of main
          report_file,  \* output/reports/fraud_detection_report.csv
          statistics,   \* FINAL STATISTICS of the last run of main
          review_data,  \* rows of the last fraud_review_report.csv
          review_outcome, \* how generate_fraud_review_report ended
          ocr_text,     \* the OCR text given to parse_structured_fields
          parsed        \* what parse_structured_fields returned for it

vars == <<csv, photos, df, scenario_1, scenario_2, scenario_2b, scenario_3,
          all_frauds, threshold, outcome, again, summary, workers,
          extracted_cards, total_cards, report_file, statistics, review_data,
          review_outcome, ocr_text, parsed>>

\* the state of the pipeline around the detector, and of the field parser
pipeline_vars == <<extracted_cards, total_cards, report_file, statistics,
                   review_data, review_outcome>>
parser_vars == <<ocr_text, parsed>>

---------------------------------------------------------------------------
(* Bounds of the model. *)

\* largest record set of the exact-detail specification
MaxDetailRecords == 2
\* largest record set of the face, photo and aggregate specifications
MaxRecords == 3
\* largest address group of the address specification
MaxVoters == 51
\* rows of the crowd that shares one house in the aggregate specification
CrowdSize == 29

---------------------------------------------------------------------------
(* pandas cells *)

NaN == <<>>

isna(x) == x = NaN

notna(x) == x # NaN

\* `x if pd.notna(x) else 'N/A'`
or_na(x) == IF notna(x) THEN x[1] ELSE "N/A"

\* card ids as process_card derives them from the card file name
card_name(i) == "card_" \o ToString(i)

\* name of the face crop saved for a card
face_file(i) == card_name(i) \o "_face.jpg"

\* Not yet called / returned normally / raised
NotRun == "not_run"
Returned == "returned"
Raised == "raised"

RECURSIVE join(_, _)
\* sep.join(parts)
join(sep, parts) ==
  IF parts = <<>> THEN ""
  ELSE IF Len(parts) = 1 THEN parts[1]
  ELSE parts[1] \o sep \o join(sep, Tail(parts))

---------------------------------------------------------------------------
(* __init__: load the frame, parsing the face encodings *)

\* JSON texts of the (one-dimensional) embeddings of the model and the
\* vectors they parse to, as fixed-point coordinates (One per 1.0)
JsonVectors ==
  [ s \in {"[0.0]", "[0.15]", "[0.2]", "[0.20001]"} |->
      CASE s = "[0.0]" -> 0
        [] s = "[0.15]" -> 15000
        [] s = "[0.2]" -> 20000
        [] s = "[0.20001]" -> 20001 ]

\* texts json.loads rejects
MalformedJson == {"[0.1, 0."}

_load_encoding(encoding_str) ==
  IF isna(encoding_str) \/ encoding_str = <<"None">> THEN NaN
  ELSE IF encoding_str[1] \in DOMAIN JsonVectors
       THEN <<JsonVectors[encoding_str[1]]>>
       ELSE NaN

RECURSIVE load_frame(_)
\* pd.read_csv followed by the apply of _load_encoding to the column
load_frame(rows) ==
  IF rows = <<>> THEN <<>>
  ELSE <<[Head(rows) EXCEPT
            !.face_encoding = _load_encoding(Head(rows).face_encoding)]>>
       \o load_frame(Tail(rows))

---------------------------------------------------------------------------
(* SCENARIO 1: detect_scenario_1_fake_details *)

\* fake_details_finding with a field listed as soon as the first row has it
fake_details_finding_listing_one_sided(row1, row2) ==
  LET matching_fields ==
        <<"name", "father/husband">>
        \o (IF notna(row1.age) THEN <<"age">> ELSE <<>>)
        \o (IF notna(row1.gender) THEN <<"gender">> ELSE <<>>)
  IN [fraud_type |-> "FAKE_DETAILS",
      card_1 |-> row1.card_id,
      card_2 |-> row2.card_id,
      name |-> row1.name[1],
      father_husband |-> row1.father_husband_name[1],
      age_1 |-> or_na(row1.age),
      age_2 |-> or_na(row2.age),
      gender_1 |-> or_na(row1.gender),
      gender_2 |-> or_na(row2.gender),
      matching_fields |-> join(" + ", matching_fields),
      confidence |-> "100%",
      likelihood |-> "DEFINITE FRAUD"]

\* the dictionary appended to fakes_scenario_1
fake_details_finding(row1, row2) ==
  LET matching_fields ==
        <<"name", "father/husband">>
        \o (IF notna(row1.age) /\ notna(row2.age) THEN <<"age">> ELSE <<>>)
        \o (IF notna(row1.gender) /\ notna(row2.gender)
            THEN <<"gender">> ELSE <<>>)
  IN [fraud_type |-> "FAKE_DETAILS",
      card_1 |-> row1.card_id,
      card_2 |-> row2.card_id,
      name |-> row1.name[1],
      father_husband |-> row1.father_husband_name[1],
      age_1 |-> or_na(row1.age),
      age_2 |-> or_na(row2.age),
      gender_1 |-> or_na(row1.gender),
      gender_2 |-> or_na(row2.gender),
      matching_fields |-> join(" + ", matching_fields),
      confidence |-> "100%",
      likelihood |-> "DEFINITE FRAUD"]

\* fake_details_pair with the age check dropped
fake_details_pair_ignoring_age(row1, row2) ==
  IF isna(row1.name) \/ isna(row2.name) THEN <<>>
  ELSE IF isna(row1.father_husband_name) \/ isna(row2.father_husband_name)
       THEN <<>>
  ELSE IF ~(row1.name = row2.name) THEN <<>>
  ELSE IF ~(row1.father_husband_name = row2.father_husband_name) THEN <<>>
  ELSE IF notna(row1.gender) /\ notna(row2.gender) /\ row1.gender # row2.gender
       THEN <<>>
  ELSE <<fake_details_finding(row1, row2)>>

\* fake_details_pair with the age check made on the first row's age alone
fake_details_pair_checking_first_age(row1, row2) ==
  IF isna(row1.name) \/ isna(row2.name) THEN <<>>
  ELSE IF isna(row1.father_husband_name) \/ isna(row2.father_husband_name)
       THEN <<>>
  ELSE IF ~(row1.name = row2.name) THEN <<>>
  ELSE IF ~(row1.father_husband_name = row2.father_husband_name) THEN <<>>
  ELSE IF notna(row1.age) /\ row1.age # row2.age THEN <<>>
  ELSE IF notna(row1.gender) /\ notna(row2.gender) /\ row1.gender # row2.gender
       THEN <<>>
  ELSE <<fake_details_finding(row1, row2)>>

\* body of the inner loop: <<>> on `continue`, else the appended finding
fake_details_pair(row1, row2) ==
  IF isna(row1.name) \/ isna(row2.name) THEN <<>>
  ELSE IF isna(row1.father_husband_name) \/ isna(row2.father_husband_name)
       THEN <<>>
  ELSE IF ~(row1.name = row2.name) THEN <<>>
  ELSE IF ~(row1.father_husband_name = row2.father_husband_name) THEN <<>>
  ELSE IF notna(row1.age) /\ notna(row2.age) /\ row1.age # row2.age THEN <<>>
  ELSE IF notna(row1.gender) /\ notna(row2.gender) /\ row1.gender # row2.gender
       THEN <<>>
  ELSE <<fake_details_finding(row1, row2)>>

RECURSIVE inner_fake_details(_, _, _)
\* the inner loop `for j in range(i + 1, n)`, from j on: what it appends
inner_fake_details(d, i, j) ==
  IF j > Len(d) THEN <<>>
  ELSE fake_details_pair(d[i], d[j]) \o inner_fake_details(d, i, j + 1)

RECURSIVE scan_fake_details_from_first(_, _)
\* scan_fake_details with the inner loop starting at the first row
scan_fake_details_from_first(d, i) ==
  IF i > Len(d) THEN <<>>
  ELSE inner_fake_details(d, i, 1) \o scan_fake_details_from_first(d, i + 1)

RECURSIVE scan_fake_details(_, _)
\* the outer loop `for i in range(len(self.df))`, from i on: what it appends
scan_fake_details(d, i) ==
  IF i > Len(d) THEN <<>>
  ELSE inner_fake_details(d, i, i + 1) \o scan_fake_details(d, i + 1)

detect_scenario_1_fake_details(d) == scan_fake_details(d, 1)

---------------------------------------------------------------------------
(* Fixed-point numbers *)

\* units of a face distance per 1.0
One == 100000
\* units of a percentage per percent
Pct == 1000

\* n / d rounded to the nearest integer, ties to the even one (n >= 0, d > 0)
round_half_even(n, d) ==
  LET q == n \div d
      r == n % d
  IN IF 2 * r < d THEN q
     ELSE IF 2 * r > d THEN q + 1
     ELSE IF q % 2 = 0 THEN q ELSE q + 1

\* round(x, ndigits) of the percentage x = num / den (in Pct units), for
\* ndigits in 1..2; the result is again in Pct units
round(num, den, ndigits) ==
  LET unit == IF ndigits = 1 THEN Pct \div 10 ELSE Pct \div 100
  IN round_half_even(num, den * unit) * unit

---------------------------------------------------------------------------
(* SCENARIO 2: detect_scenario_2_fake_face *)

\* face_recognition.face_distance: Euclidean norm of the difference
face_distance(a, b) == IF a >= b THEN a - b ELSE b - a

\* similarity_percent = (1 - distance) * 100 of two rows of faces_df
face_similarity(row1, row2) ==
  LET distance == face_distance(row1.face_encoding[1], row2.face_encoding[1])
  IN ((One - distance) * 100) \div (One \div Pct)

\* are both names present, and then are they different or the same
names_differ(row1, row2) ==
  notna(row1.name) /\ notna(row2.name) /\ row1.name # row2.name

names_same(row1, row2) ==
  notna(row1.name) /\ notna(row2.name) /\ row1.name = row2.name

\* evidence_score with the penalty for equal names applied as a bonus
evidence_score_always_adding(row1, row2, similarity_percent) ==
  IF names_differ(row1, row2) THEN similarity_percent + 5 * Pct
  ELSE IF names_same(row1, row2) THEN similarity_percent + 5 * Pct
  ELSE similarity_percent

\* confidence_score before rounding: the similarity nudged by the names
evidence_score(row1, row2, similarity_percent) ==
  IF names_differ(row1, row2) THEN similarity_percent + 5 * Pct
  ELSE IF names_same(row1, row2) THEN similarity_percent - 5 * Pct
  ELSE similarity_percent

\* the dictionary appended to fakes_scenario_2
fake_face_finding(row1, row2, similarity_percent) ==
  LET details_evidence ==
        IF names_differ(row1, row2)
        THEN <<"DIFFERENT NAMES: '" \o row1.name[1] \o "' vs '"
                 \o row2.name[1] \o "'">>
        ELSE IF names_same(row1, row2) THEN <<"SAME NAME: " \o row1.name[1]>>
        ELSE <<>>
  IN [fraud_type |-> "FAKE_FACE",
      card_1 |-> row1.card_id,
      card_2 |-> row2.card_id,
      name_1 |-> or_na(row1.name),
      name_2 |-> or_na(row2.name),
      father_1 |-> or_na(row1.father_husband_name),
      father_2 |-> or_na(row2.father_husband_name),
      face_similarity_percent |-> round(similarity_percent, 1, 2),
      confidence_score |->
        round(evidence_score(row1, row2, similarity_percent), 1, 1),
      details_evidence |->
        IF details_evidence # <<>> THEN join(", ", details_evidence)
        ELSE "No matching details",
      likelihood |->
        IF names_differ(row1, row2)
        THEN "CRITICAL FRAUD - SAME FACE, DIFFERENT NAMES"
        ELSE "LIKELY FRAUD - SAME PERSON"]

\* fake_face_pair with a threshold that excludes exactly 80.0
fake_face_pair_above_80(row1, row2) ==
  IF face_similarity(row1, row2) <= 80 * Pct THEN <<>>
  ELSE <<fake_face_finding(row1, row2, face_similarity(row1, row2))>>

\* fake_face_pair that also drops a pair whose names are present and equal
fake_face_pair_rejecting_same_name(row1, row2) ==
  IF face_similarity(row1, row2) < 80 * Pct \/ names_same(row1, row2) THEN <<>>
  ELSE <<fake_face_finding(row1, row2, face_similarity(row1, row2))>>

\* body of the inner loop over faces_df: <<>> on `continue`
fake_face_pair(row1, row2) ==
  IF face_similarity(row1, row2) < 80 * Pct THEN <<>>
  ELSE <<fake_face_finding(row1, row2, face_similarity(row1, row2))>>

RECURSIVE inner_fake_face(_, _, _)
\* the inner loop `for j in range(i + 1, n)`, from j on: what it appends
inner_fake_face(faces_df, i, j) ==
  IF j > Len(faces_df) THEN <<>>
  ELSE fake_face_pair(faces_df[i], faces_df[j]) \o inner_fake_face(faces_df, i, j + 1)

RECURSIVE scan_fake_face(_, _)
\* the outer loop `for i in range(len(encodings))`, from i on: what it appends
scan_fake_face(faces_df, i) ==
  IF i > Len(faces_df) THEN <<>>
  ELSE inner_fake_face(faces_df, i, i + 1) \o scan_fake_face(faces_df, i + 1)

\* has_face that also asks for a name
has_face_and_name(row) == notna(row.face_encoding) /\ notna(row.name)

\* self.df[self.df['face_encoding'].notna()].reset_index(drop=True)
has_face(row) == notna(row.face_encoding)

detect_scenario_2_fake_face(d) ==
  LET faces_df == SelectSeq(d, has_face)
  IN IF Len(faces_df) < 2 THEN <<>>
     ELSE scan_fake_face(faces_df, 1)

---------------------------------------------------------------------------
(* SCENARIO 2B: detect_exact_duplicate_photos *)

\* The content of a photo file: <<img>> for an image, and <<>> for what
\* Image.open / average_hash raise on, a missing or corrupt file
Unreadable == <<>>

\* the number of bits of a hash computed with hash_size
hash_bits(hash_size) == hash_size * hash_size

\* imagehash.average_hash(img, hash_size): the set of the bits that are 1
\* among the hash_size * hash_size bits.  Image k of the model is the one
\* whose first k blocks are brighter than the mean.
average_hash(img, hash_size) ==
  {b \in 1..hash_bits(hash_size) : b <= img}

\* ImageHash.__sub__: the Hamming distance, the number of differing bits
hash_sub(hash_1, hash_2) ==
  Cardinality((hash_1 \ hash_2) \cup (hash_2 \ hash_1))

\* has_face_path that also asks for a usable embedding
has_face_path_and_encoding(row) ==
  notna(row.face_path) /\ notna(row.face_encoding)

\* self.df[self.df['face_path'].notna()]
has_face_path(row) == notna(row.face_path)

RECURSIVE compute_hashes_stopping(_, _, _)
\* compute_hashes leaving the loop at the first photo that raises
compute_hashes_stopping(cards_with_faces, files, acc) ==
  IF cards_with_faces = <<>> THEN acc
  ELSE LET row == Head(cards_with_faces)
           img == files[row.face_path[1]]
       IN IF img = Unreadable THEN acc
          ELSE compute_hashes_stopping(
                 Tail(cards_with_faces), files,
                 Append(acc, [card_id |-> row.card_id,
                              img_hash |-> average_hash(img[1], 16),
                              row |-> row]))

RECURSIVE compute_hashes(_, _, _)
\* the loop that fills `hashes`, skipping the photos that raise
compute_hashes(cards_with_faces, files, acc) ==
  IF cards_with_faces = <<>> THEN acc
  ELSE LET row == Head(cards_with_faces)
           img == files[row.face_path[1]]
       IN compute_hashes(
            Tail(cards_with_faces), files,
            IF img = Unreadable THEN acc
            ELSE Append(acc, [card_id |-> row.card_id,
                              img_hash |-> average_hash(img[1], 16),
                              row |-> row]))

\* photo_likelihood with the exact class ending below 5
photo_likelihood_below_5(hash_diff) ==
  IF hash_diff < 5 THEN "EXACT SAME PHOTO - DEFINITE FRAUD"
  ELSE "VERY SIMILAR PHOTO - LIKELY FRAUD"

\* the class of a reported pair
photo_likelihood(hash_diff) ==
  IF hash_diff <= 5 THEN "EXACT SAME PHOTO - DEFINITE FRAUD"
  ELSE "VERY SIMILAR PHOTO - LIKELY FRAUD"

\* body of the inner loop over `hashes`: <<>> when nothing is appended
duplicate_photo_pair(h1, h2) ==
  LET hash_diff == hash_sub(h1.img_hash, h2.img_hash)
      \* (1 - hash_diff / 64) * 100, as the fraction num / 64 of Pct units
      similarity_num == (64 - hash_diff) * 100 * Pct
  IN IF hash_diff <= 10
     THEN << [fraud_type |-> "DUPLICATE_PHOTO",
              card_1 |-> h1.card_id,
              card_2 |-> h2.card_id,
              name_1 |-> or_na(h1.row.name),
              name_2 |-> or_na(h2.row.name),
              father_1 |-> or_na(h1.row.father_husband_name),
              father_2 |-> or_na(h2.row.father_husband_name),
              photo_similarity |-> round(similarity_num, 64, 2),
              hash_difference |-> hash_diff,
              likelihood |-> photo_likelihood(hash_diff)] >>
     ELSE <<>>

RECURSIVE inner_duplicate_photos(_, _, _)
\* the inner loop `for j in range(i + 1, n)`, from j on: what it appends
inner_duplicate_photos(hashes, i, j) ==
  IF j > Len(hashes) THEN <<>>
  ELSE duplicate_photo_pair(hashes[i], hashes[j]) \o inner_duplicate_photos(hashes, i, j + 1)

RECURSIVE scan_duplicate_photos(_, _)
\* the outer loop `for i in range(len(hashes))`, from i on: what it appends
scan_duplicate_photos(hashes, i) ==
  IF i > Len(hashes) THEN <<>>
  ELSE inner_duplicate_photos(hashes, i, i + 1) \o scan_duplicate_photos(hashes, i + 1)

detect_exact_duplicate_photos(d, files) ==
  LET cards_with_faces == SelectSeq(d, has_face_path)
  IN IF Len(cards_with_faces) < 2 THEN <<>>
     ELSE scan_duplicate_photos(compute_hashes(cards_with_faces, files, <<>>), 1)

---------------------------------------------------------------------------
(* SCENARIO 3: detect_address_anomalies *)

has_house_number(row) == notna(row.house_number)

RECURSIVE sorted_keys(_)
\* the group keys in the order groupby yields them: ascending
sorted_keys(keys) ==
  IF keys = {} THEN <<>>
  ELSE LET least == CHOOSE k \in keys : \A other \in keys : k <= other
       IN <<least>> \o sorted_keys(keys \ {least})

\* nunique with NaN counted as a value (dropna=False)
nunique_counting_nan(rows, column) ==
  Cardinality({rows[i][column] : i \in 1..Len(rows)})

\* Series.nunique(): the number of distinct values that are not NaN
nunique(rows, column) ==
  Cardinality({rows[i][column] : i \in 1..Len(rows)} \ {NaN})

\* risk_level with the tiers starting above 40 and 50
risk_level_above(count) ==
  IF count > 50 THEN "CRITICAL"
  ELSE IF count > 40 THEN "HIGH"
  ELSE "MEDIUM"

\* risk_level with a LOW tier for the groups under the default threshold
risk_level_low_below_30(count) ==
  IF count >= 50 THEN "CRITICAL"
  ELSE IF count >= 40 THEN "HIGH"
  ELSE IF count >= 30 THEN "MEDIUM"
  ELSE "LOW"

\* the suspicion level of an address with `count` voters
risk_level(count) ==
  IF count >= 50 THEN "CRITICAL"
  ELSE IF count >= 40 THEN "HIGH"
  ELSE "MEDIUM"

\* address_anomaly with the list of cards not cut at 10
address_anomaly_listing_all(df_with_house, house_num) ==
  LET at_address(row) == row.house_number = <<house_num>>
      voters_at_address == SelectSeq(df_with_house, at_address)
      count == Len(voters_at_address)
      card_ids == [i \in 1..Len(voters_at_address) |->
                     voters_at_address[i].card_id]
  IN [fraud_type |-> "ADDRESS_ANOMALY",
      house_number |-> house_num,
      voter_count |-> count,
      unique_names |-> nunique(voters_at_address, "name"),
      unique_fathers |-> nunique(voters_at_address, "father_husband_name"),
      risk_level |-> risk_level(count),
      cards |-> join(", ", card_ids) \o "...",
      likelihood |-> ToString(count)
                     \o " voters at one address - Likely fake voter operation"]

\* one iteration of the loop over suspicious_houses
address_anomaly(df_with_house, house_num) ==
  LET at_address(row) == row.house_number = <<house_num>>
      voters_at_address == SelectSeq(df_with_house, at_address)
      count == Len(voters_at_address)
      card_ids == [i \in 1..Len(voters_at_address) |->
                     voters_at_address[i].card_id]
      first_10 == SubSeq(card_ids, 1, IF count < 10 THEN count ELSE 10)
  IN [fraud_type |-> "ADDRESS_ANOMALY",
      house_number |-> house_num,
      voter_count |-> count,
      unique_names |-> nunique(voters_at_address, "name"),
      unique_fathers |-> nunique(voters_at_address, "father_husband_name"),
      risk_level |-> risk_level(count),
      cards |-> join(", ", first_10) \o "...",
      likelihood |-> ToString(count)
                     \o " voters at one address - Likely fake voter operation"]

RECURSIVE scan_houses(_, _, _, _)
\* groupby().size(), the filter on voter_count and the loop over the rest
scan_houses(df_with_house, houses, suspicious_threshold, acc) ==
  IF houses = <<>> THEN acc
  ELSE LET house_num == Head(houses)
           at_address(row) == row.house_number = <<house_num>>
           voter_count == Len(SelectSeq(df_with_house, at_address))
       IN scan_houses(df_with_house, Tail(houses), suspicious_threshold,
                      IF voter_count >= suspicious_threshold
                      THEN Append(acc, address_anomaly(df_with_house, house_num))
                      ELSE acc)

\* detect_address_anomalies with the missing house numbers filled with 0
\* instead of filtered out
detect_address_anomalies_filling_na(d, suspicious_threshold) ==
  LET df_with_house ==
        [i \in 1..Len(d) |->
           IF has_house_number(d[i]) THEN d[i]
           ELSE [d[i] EXCEPT !.house_number = <<0>>]]
      keys == {df_with_house[i].house_number[1] : i \in 1..Len(df_with_house)}
  IN IF Len(df_with_house) = 0 THEN <<>>
     ELSE scan_houses(df_with_house, sorted_keys(keys), suspicious_threshold,
                      <<>>)

detect_address_anomalies(d, suspicious_threshold) ==
  LET df_with_house == SelectSeq(d, has_house_number)
      keys == {df_with_house[i].house_number[1] : i \in 1..Len(df_with_house)}
  IN IF Len(df_with_house) = 0 THEN <<>>
     ELSE scan_houses(df_with_house, sorted_keys(keys), suspicious_threshold,
                      <<>>)

---------------------------------------------------------------------------
(* detect_all_frauds *)

\* detect_all_frauds with the photo findings put before the face findings
detect_all_frauds_photos_first(d, files) ==
  detect_scenario_1_fake_details(d)
  \o detect_exact_duplicate_photos(d, files)
  \o detect_scenario_2_fake_face(d)
  \o detect_address_anomalies(d, 30)

\* detect_all_frauds with the face findings dropped for the pairs the
\* exact-detail matcher already reported
detect_all_frauds_deduplicating(d, files) ==
  LET listed == detect_scenario_1_fake_details(d)
      reported == {<<listed[k].card_1, listed[k].card_2>> :
                     k \in 1..Len(listed)}
      is_new(f) == <<f.card_1, f.card_2>> \notin reported
  IN listed
     \o SelectSeq(detect_scenario_2_fake_face(d), is_new)
     \o detect_exact_duplicate_photos(d, files)
     \o detect_address_anomalies(d, 30)

\* the value detect_all_frauds returns: the rows of the returned DataFrame
detect_all_frauds(d, files) ==
  detect_scenario_1_fake_details(d)
  \o detect_scenario_2_fake_face(d)
  \o detect_exact_duplicate_photos(d, files)
  \o detect_address_anomalies(d, 30)

\* the number of findings of a fraud type in a list
count_of(findings, fraud_type) ==
  LET has_type(f) == f.fraud_type = fraud_type
  IN Len(SelectSeq(findings, has_type))

\* FRAUD DETECTION SUMMARY: the length of each matcher's list and of their
\* concatenation (every finding of a list has the type of its matcher)
fraud_summary(findings) ==
  [scenario_1 |-> count_of(findings, "FAKE_DETAILS"),
   scenario_2 |-> count_of(findings, "FAKE_FACE"),
   scenario_2b |-> count_of(findings, "DUPLICATE_PHOTO"),
   scenario_3 |-> count_of(findings, "ADDRESS_ANOMALY"),
   total |-> Len(findings)]

---------------------------------------------------------------------------
(* The four matchers as concurrent workers over one frame *)

Workers == {"scenario_1", "scenario_2", "scenario_2b", "scenario_3"}

\* a worker that has not started: its place in the method, the index of its
\* outer loop, its local frame, its local list (hashes, or the house
\* numbers of the groups) and the findings appended so far
idle == [pc |-> "idle", i |-> 0, rows |-> <<>>, list |-> <<>>, found |-> <<>>]

---------------------------------------------------------------------------
(* The public methods as actions *)

Methods == {"detect_scenario_1_fake_details", "detect_scenario_2_fake_face",
            "detect_exact_duplicate_photos", "detect_address_anomalies",
            "detect_all_frauds"}

\* thresholds a caller passes to detect_address_anomalies (30 is the default)
Thresholds == {2, 30, 51}

DetectScenario1 ==
  /\ scenario_1' = detect_scenario_1_fake_details(df)
  /\ outcome' = [outcome EXCEPT !["detect_scenario_1_fake_details"] = Returned]
  /\ UNCHANGED <<csv, photos, df, scenario_2, scenario_2b, scenario_3,
                 all_frauds, threshold, again, summary, workers,
                 pipeline_vars, parser_vars>>

\* DetectScenario2 keeping the filtered frame as the detector's frame
DetectScenario2_narrowing_df ==
  /\ scenario_2' = detect_scenario_2_fake_face(df)
  /\ df' = SelectSeq(df, has_face)
  /\ outcome' = [outcome EXCEPT !["detect_scenario_2_fake_face"] = Returned]
  /\ UNCHANGED <<csv, photos, scenario_1, scenario_2b, scenario_3,
                 all_frauds, threshold, again, summary, workers,
                 pipeline_vars, parser_vars>>

DetectScenario2 ==
  /\ scenario_2' = detect_scenario_2_fake_face(df)
  /\ outcome' = [outcome EXCEPT !["detect_scenario_2_fake_face"] = Returned]
  /\ UNCHANGED <<csv, photos, df, scenario_1, scenario_2b, scenario_3,
                 all_frauds, threshold, again, summary, workers,
                 pipeline_vars, parser_vars>>

DetectDuplicatePhotos ==
  /\ scenario_2b' = detect_exact_duplicate_photos(df, photos)
  /\ outcome' = [outcome EXCEPT !["detect_exact_duplicate_photos"] = Returned]
  /\ UNCHANGED <<csv, photos, df, scenario_1, scenario_2, scenario_3,
                 all_frauds, threshold, again, summary, workers,
                 pipeline_vars, parser_vars>>

DetectAddressAnomalies ==
  \E suspicious_threshold \in Thresholds :
    /\ scenario_3' = detect_address_anomalies(df, suspicious_threshold)
    /\ threshold' = suspicious_threshold
    /\ outcome' = [outcome EXCEPT !["detect_address_anomalies"] = Returned]
    /\ UNCHANGED <<csv, photos, df, scenario_1, scenario_2, scenario_2b,
                   all_frauds, again, summary, workers, pipeline_vars,
                   parser_vars>>

\* DetectAllFrauds with self.df narrowed to the rows with a face encoding
DetectAllFrauds_narrowing_df ==
  /\ all_frauds' = detect_all_frauds(df, photos)
  /\ df' = SelectSeq(df, has_face)
  /\ outcome' = [outcome EXCEPT !["detect_all_frauds"] = Returned]
  /\ again' = (outcome["detect_all_frauds"] # NotRun)
  /\ summary' = <<fraud_summary(detect_all_frauds(df, photos))>>
  /\ UNCHANGED <<csv, photos, scenario_1, scenario_2, scenario_2b,
                 scenario_3, threshold, workers, pipeline_vars, parser_vars>>

DetectAllFrauds ==
  /\ all_frauds' = detect_all_frauds(df, photos)
  /\ outcome' = [outcome EXCEPT !["detect_all_frauds"] = Returned]
  /\ again' = (outcome["detect_all_frauds"] # NotRun)
  /\ summary' = <<fraud_summary(detect_all_frauds(df, photos))>>
  /\ UNCHANGED <<csv, photos, df, scenario_1, scenario_2, scenario_2b,
                 scenario_3, threshold, workers, pipeline_vars, parser_vars>>

---------------------------------------------------------------------------
(* Initial states: the detector constructed over a data file *)

\* a row of the data file; `cells` gives the cells other than card_id
csv_row(card_id, cells) ==
  [card_id |-> card_id,
   name |-> cells.name,
   father_husband_name |-> cells.father_husband_name,
   age |-> cells.age,
   gender |-> cells.gender,
   house_number |-> cells.house_number,
   face_encoding |-> cells.face_encoding,
   face_path |-> cells.face_path]

\* a row with no cell filled in
Blank ==
  [name |-> NaN, father_husband_name |-> NaN, age |-> NaN, gender |-> NaN,
   house_number |-> NaN, face_encoding |-> NaN, face_path |-> NaN]

\* no file at all
NoFiles == [path \in {} |-> Unreadable]

\* the state after DuplicateDetectorFinal(data_csv), with an OCR text at hand
\* for the parser
Started(rows, files, text) ==
  /\ csv = rows
  /\ photos = files
  /\ df = load_frame(rows)
  /\ scenario_1 = <<>>
  /\ scenario_2 = <<>>
  /\ scenario_2b = <<>>
  /\ scenario_3 = <<>>
  /\ all_frauds = <<>>
  /\ threshold = 30
  /\ outcome = [m \in Methods |-> NotRun]
  /\ again = FALSE
  /\ summary = NaN
  /\ workers = [w \in Workers |-> idle]
  /\ extracted_cards = NoFiles
  /\ total_cards = 0
  /\ report_file = NaN
  /\ statistics = NaN
  /\ review_data = <<>>
  /\ review_outcome = NotRun
  /\ ocr_text = text
  /\ parsed = NaN

\* the state after DuplicateDetectorFinal(data_csv)
Constructed(rows, files) == Started(rows, files, <<>>)


(* Exact-detail specification: the identity cells vary *)

DetailCells ==
  [name : {NaN, <<"A">>, <<"B">>},
   father_husband_name : {NaN, <<"X">>, <<"Y">>},
   age : {NaN, <<30>>, <<31>>},
   gender : {NaN, <<"M">>, <<"F">>}]

InitDetails ==
  \E n \in 0..MaxDetailRecords :
    \E cells \in [1..n -> DetailCells] :
      Constructed(
        [i \in 1..n |->
           csv_row(card_name(i),
                   [Blank EXCEPT !.name = cells[i].name,
                                 !.father_husband_name =
                                    cells[i].father_husband_name,
                                 !.age = cells[i].age,
                                 !.gender = cells[i].gender])],
        NoFiles)

NextDetails == DetectScenario1

SpecDetails == InitDetails /\ [][NextDetails]_vars

(* Face-similarity specification: the names and the embeddings vary *)

FaceCells ==
  [name : {NaN, <<"A">>, <<"B">>},
   face_encoding : {NaN} \cup {<<text>> : text \in DOMAIN JsonVectors}]

InitFace ==
  \E n \in 0..MaxRecords :
    \E cells \in [1..n -> FaceCells] :
      Constructed(
        [i \in 1..n |->
           csv_row(card_name(i),
                   [Blank EXCEPT !.name = cells[i].name,
                                 !.face_encoding = cells[i].face_encoding])],
        NoFiles)

NextFace == DetectScenario2

SpecFace == InitFace /\ [][NextFace]_vars

(* Photo-hash specification: the face photos vary *)

\* the images of the model, each named by the number of 1 bits of its hash
Images == {0, 5, 6, 10, 11}

\* what a photo file can hold
FileContents == {Unreadable} \cup {<<img>> : img \in Images}

\* what a row has as its photo: NaN for no face_path, or <<content>> for a
\* face_path to a file with that content
PhotoChoices == {NaN} \cup {<<content>> : content \in FileContents}

\* the files behind the face paths of rows 1..n
photo_files(n, choice) ==
  [path \in {face_file(i) : i \in {k \in 1..n : choice[k] # NaN}} |->
     choice[CHOOSE i \in 1..n : face_file(i) = path][1]]

InitPhoto ==
  \E n \in 0..MaxRecords :
    \E choice \in [1..n -> PhotoChoices] :
      Constructed(
        [i \in 1..n |->
           csv_row(card_name(i),
                   [Blank EXCEPT !.face_path =
                      IF choice[i] = NaN THEN NaN
                      ELSE <<face_file(i)>>])],
        photo_files(n, choice))

NextPhoto == DetectDuplicatePhotos

SpecPhoto == InitPhoto /\ [][NextPhoto]_vars

(* Address specification: the sizes and the order of the address groups vary *)

\* sizes of the second address group
OtherGroupSizes == {0, 1, 30}

\* numbers of rows without a house number
HouselessSizes == {0, 30}

\* how the names of the rows of the address specification are filled in
NamePatterns == {"none", "same", "mixed"}

\* the name cell a pattern gives to the row with number i
pattern_name(pattern, i, values) ==
  CASE pattern = "none" -> NaN
    [] pattern = "same" -> <<values[1]>>
    [] OTHER -> IF i % 3 = 0 THEN NaN ELSE <<values[1 + (i % 2)]>>

\* rows that share a house number (or have none), numbered from `first`
address_rows(first, n, house_number) ==
  [i \in 1..n |->
     csv_row(card_name(first + i - 1),
             [Blank EXCEPT !.house_number = house_number])]

\* a data file with its name and father_husband_name cells filled in by a
\* pattern each
with_names(rows, names, fathers) ==
  [i \in 1..Len(rows) |->
     [rows[i] EXCEPT !.name = pattern_name(names, i, <<"A", "B">>),
                     !.father_husband_name =
                        pattern_name(fathers, i, <<"X", "Y">>)]]

InitAddress ==
  \E n7 \in 0..MaxVoters : \E n3 \in OtherGroupSizes :
    \E n0 \in HouselessSizes : \E house_7_first \in BOOLEAN :
      \E names \in NamePatterns :
        Constructed(
          with_names(
            IF house_7_first
            THEN address_rows(1, n7, <<7>>)
                 \o address_rows(n7 + 1, n0, NaN)
                 \o address_rows(n7 + n0 + 1, n3, <<3>>)
            ELSE address_rows(1, n3, <<3>>)
                 \o address_rows(n3 + 1, n0, NaN)
                 \o address_rows(n3 + n0 + 1, n7, <<7>>),
            names,
            IF names = "mixed" THEN "same" ELSE "mixed"),
          NoFiles)

NextAddress == DetectAddressAnomalies

SpecAddress == InitAddress /\ [][NextAddress]_vars

(* Aggregate specification: whole rows vary, with a crowd at one address *)

\* a voter with every cell filled in, and the kinds of rows of the data file
\* drawn from: each with its cells, its face_encoding cell (a JSON vector, a
\* text that is not JSON, or nothing) and the content of the file behind its
\* face_path
FullCells ==
  [Blank EXCEPT !.name = <<"A">>, !.father_husband_name = <<"X">>,
                !.age = <<30>>, !.gender = <<"M">>, !.house_number = <<7>>]

Profiles ==
  { [cells |-> FullCells, encoding |-> <<"[0.0]">>, photo |-> <<<<0>>>>],
    [cells |-> FullCells, encoding |-> <<"[0.1, 0.">>, photo |-> <<<<0>>>>],
    [cells |-> [Blank EXCEPT !.name = <<"B">>,
                             !.father_husband_name = <<"X">>,
                             !.gender = <<"F">>,
                             !.house_number = <<8>>],
     encoding |-> <<"[0.0]">>, photo |-> <<<<5>>>>],
    [cells |-> FullCells, encoding |-> NaN, photo |-> <<Unreadable>>] }

InitAll ==
  \E n \in 0..MaxRecords : \E crowd \in {0, CrowdSize} :
    \E profile \in [1..n -> Profiles] :
      \E repeated_id \in BOOLEAN :
        Constructed(
          [i \in 1..n |->
             csv_row(IF repeated_id /\ i = n THEN card_name(1)
                     ELSE card_name(i),
                     [profile[i].cells EXCEPT
                        !.face_encoding = profile[i].encoding,
                        !.face_path = IF profile[i].photo = NaN THEN NaN
                                      ELSE <<face_file(i)>>])]
          \o address_rows(n + 1, crowd, <<7>>),
          photo_files(n, [i \in 1..n |-> profile[i].photo]))

NextAll == DetectAllFrauds

SpecAll == InitAll /\ [][NextAll]_vars

---------------------------------------------------------------------------
(* The four matcher calls of detect_all_frauds as workers that advance one
   iteration of their outer loop at a time, and the concatenation *)

worker_frame == <<csv, photos, df, scenario_1, scenario_2, scenario_2b,
                  scenario_3, threshold, pipeline_vars, parser_vars>>

\* one iteration of `for i in range(len(self.df))`
DetailsWorker ==
  LET w == workers["scenario_1"]
  IN /\ w.pc # "done"
     /\ workers' = [workers EXCEPT !["scenario_1"] =
          IF w.pc = "idle" THEN [w EXCEPT !.pc = "scan", !.i = 1, !.rows = df]
          ELSE IF w.i > Len(w.rows) THEN [w EXCEPT !.pc = "done"]
          ELSE [w EXCEPT !.i = w.i + 1,
                         !.found = w.found
                                   \o inner_fake_details(w.rows, w.i, w.i + 1)]]
     /\ UNCHANGED <<worker_frame, all_frauds, outcome, again, summary>>

\* FaceWorker leaving out the pairs the exact-detail worker has reported so
\* far
FaceWorker_skipping_reported ==
  LET w == workers["scenario_2"]
      reported == {<<f.card_1, f.card_2>> :
                     f \in {workers["scenario_1"].found[k] :
                              k \in 1..Len(workers["scenario_1"].found)}}
      is_new(f) == <<f.card_1, f.card_2>> \notin reported
      faces_df == SelectSeq(df, has_face)
  IN /\ w.pc # "done"
     /\ workers' = [workers EXCEPT !["scenario_2"] =
          IF w.pc = "idle"
          THEN [w EXCEPT !.pc = IF Len(faces_df) < 2 THEN "done" ELSE "scan",
                         !.i = 1, !.rows = faces_df]
          ELSE IF w.i > Len(w.rows) THEN [w EXCEPT !.pc = "done"]
          ELSE [w EXCEPT !.i = w.i + 1,
                         !.found = w.found
                                   \o SelectSeq(
                                        inner_fake_face(w.rows, w.i, w.i + 1),
                                        is_new)]]
     /\ UNCHANGED <<worker_frame, all_frauds, outcome, again, summary>>

\* the filter and early return, then one iteration of
\* `for i in range(len(encodings))`
FaceWorker ==
  LET w == workers["scenario_2"]
      faces_df == SelectSeq(df, has_face)
  IN /\ w.pc # "done"
     /\ workers' = [workers EXCEPT !["scenario_2"] =
          IF w.pc = "idle"
          THEN [w EXCEPT !.pc = IF Len(faces_df) < 2 THEN "done" ELSE "scan",
                         !.i = 1, !.rows = faces_df]
          ELSE IF w.i > Len(w.rows) THEN [w EXCEPT !.pc = "done"]
          ELSE [w EXCEPT !.i = w.i + 1,
                         !.found = w.found
                                   \o inner_fake_face(w.rows, w.i, w.i + 1)]]
     /\ UNCHANGED <<worker_frame, all_frauds, outcome, again, summary>>

\* the filter and early return, then one iteration of the hashing loop or
\* of `for i in range(len(hashes))`
PhotoWorker ==
  LET w == workers["scenario_2b"]
      cards_with_faces == SelectSeq(df, has_face_path)
  IN /\ w.pc # "done"
     /\ workers' = [workers EXCEPT !["scenario_2b"] =
          IF w.pc = "idle"
          THEN [w EXCEPT !.pc = IF Len(cards_with_faces) < 2 THEN "done"
                                ELSE "hash",
                         !.i = 1, !.rows = cards_with_faces]
          ELSE IF w.pc = "hash"
          THEN IF w.i > Len(w.rows) THEN [w EXCEPT !.pc = "scan", !.i = 1]
               ELSE [w EXCEPT !.i = w.i + 1,
                              !.list = compute_hashes(<<w.rows[w.i]>>, photos,
                                                      w.list)]
          ELSE IF w.i > Len(w.list) THEN [w EXCEPT !.pc = "done"]
          ELSE [w EXCEPT !.i = w.i + 1,
                         !.found = w.found
                                   \o inner_duplicate_photos(w.list, w.i,
                                                             w.i + 1)]]
     /\ UNCHANGED <<worker_frame, all_frauds, outcome, again, summary>>

\* the filter and early return, the grouping, then one group of the loop,
\* with the default threshold of the call in detect_all_frauds
AddressWorker ==
  LET w == workers["scenario_3"]
      df_with_house == SelectSeq(df, has_house_number)
      keys == {df_with_house[i].house_number[1] : i \in 1..Len(df_with_house)}
  IN /\ w.pc # "done"
     /\ workers' = [workers EXCEPT !["scenario_3"] =
          IF w.pc = "idle"
          THEN [w EXCEPT !.pc = IF Len(df_with_house) = 0 THEN "done"
                                ELSE "scan",
                         !.i = 1, !.rows = df_with_house,
                         !.list = sorted_keys(keys)]
          ELSE IF w.i > Len(w.list) THEN [w EXCEPT !.pc = "done"]
          ELSE [w EXCEPT !.i = w.i + 1,
                         !.found = scan_houses(w.rows, <<w.list[w.i]>>, 30,
                                               w.found)]]
     /\ UNCHANGED <<worker_frame, all_frauds, outcome, again, summary>>

\* all_frauds = scenario_1 + scenario_2 + scenario_2b + scenario_3
merged ==
  workers["scenario_1"].found \o workers["scenario_2"].found
  \o workers["scenario_2b"].found \o workers["scenario_3"].found

Merge ==
  /\ \A w \in Workers : workers[w].pc = "done"
  /\ all_frauds' = merged
  /\ outcome' = [outcome EXCEPT !["detect_all_frauds"] = Returned]
  /\ again' = (outcome["detect_all_frauds"] # NotRun)
  /\ summary' = <<fraud_summary(merged)>>
  /\ UNCHANGED <<worker_frame, workers>>

\* a record with every field, an embedding and a photo
Duplicate == [cells |-> FullCells, encoding |-> <<"[0.0]">>, photo |-> <<<<0>>>>]

WorkerProfiles ==
  { Duplicate,
    [cells |-> [Blank EXCEPT !.house_number = <<8>>],
     encoding |-> <<"[0.0]">>, photo |-> <<Unreadable>>],
    [cells |-> [FullCells EXCEPT !.age = NaN],
     encoding |-> NaN, photo |-> <<<<5>>>>] }

\* up to MaxRecords records of any profile, or up to MaxDetailRecords
\* duplicates beside a crowded address
InitWorkers ==
  \E n \in 0..MaxRecords : \E crowd \in {0, CrowdSize} :
    \E profile \in [1..n -> WorkerProfiles] :
      /\ crowd > 0 =>
           /\ n <= MaxDetailRecords
           /\ \A i \in 1..n : profile[i] = Duplicate
      /\ Constructed(
           [i \in 1..n |->
              csv_row(card_name(i),
                      [profile[i].cells EXCEPT
                         !.face_encoding = profile[i].encoding,
                         !.face_path = IF profile[i].photo = NaN THEN NaN
                                       ELSE <<face_file(i)>>])]
           \o address_rows(n + 1, crowd, <<7>>),
           photo_files(n, [i \in 1..n |-> profile[i].photo]))

NextWorkers ==
  \/ DetailsWorker
  \/ FaceWorker
  \/ PhotoWorker
  \/ AddressWorker
  \/ Merge

SpecWorkers == InitWorkers /\ [][NextWorkers]_vars

---------------------------------------------------------------------------
(* GoogleVisionExtractor.parse_structured_fields.  A line of OCR text is a
   sequence of tokens: the Hindi label words in transliteration, separators,
   spaces, words and digit strings.  The regular expressions of the parser
   are the operators below on such lines. *)

MaxLines == 2

\* the characters of the digit strings: Arabic digits and Devanagari ones
DigitChars ==
  [token \in {"5", "17", "18", "45", "120", "121", "1215", "dev45"} |->
     CASE token = "5" -> <<"5">>
       [] token = "17" -> <<"1", "7">>
       [] token = "18" -> <<"1", "8">>
       [] token = "45" -> <<"4", "5">>
       [] token = "120" -> <<"1", "2", "0">>
       [] token = "121" -> <<"1", "2", "1">>
       [] token = "1215" -> <<"1", "2", "1", "5">>
       [] token = "dev45" -> <<"dev4", "dev5">>]

is_digits(token) == token \in DOMAIN DigitChars

\* age_str.replace('०', '0')...replace('९', '9')
to_arabic(char) ==
  CASE char = "dev4" -> "4"
    [] char = "dev5" -> "5"
    [] OTHER -> char

digit_value(char) ==
  CASE char = "0" -> 0 [] char = "1" -> 1 [] char = "2" -> 2
    [] char = "4" -> 4 [] char = "5" -> 5 [] char = "7" -> 7
    [] char = "8" -> 8

RECURSIVE int(_)
\* int(age_str) of a string of Arabic digits
int(chars) ==
  IF chars = <<>> THEN 0
  ELSE 10 * int(SubSeq(chars, 1, Len(chars) - 1))
       + digit_value(chars[Len(chars)])

RECURSIVE lstrip(_)
lstrip(line) ==
  IF line # <<>> /\ Head(line) = " " THEN lstrip(Tail(line)) ELSE line

RECURSIVE rstrip(_)
rstrip(line) ==
  IF line # <<>> /\ line[Len(line)] = " "
  THEN rstrip(SubSeq(line, 1, Len(line) - 1)) ELSE line

\* str.strip()
strip(line) == rstrip(lstrip(line))

RECURSIVE string_of(_)
\* the string a line of tokens stands for
string_of(line) ==
  IF line = <<>> THEN "" ELSE Head(line) \o string_of(Tail(line))

\* lines = [line.strip() for line in text.split('\n') if line.strip()]
stripped_lines(text) ==
  LET has_text(line) == strip(line) # <<>>
      kept == SelectSeq(text, has_text)
  IN [i \in 1..Len(kept) |-> strip(kept[i])]

\* re.search of a pattern made of alternatives: some token is one of them
contains(line, words) == \E k \in 1..Len(line) : line[k] \in words

\* re.search(r'(a|b).*(c|d)', line)
contains_in_order(line, first, second) ==
  \E k \in 1..Len(line) : \E l \in (k + 1)..Len(line) :
    line[k] \in first /\ line[l] \in second

\* the first token at or after position k that is not a space (\s*)
skip_spaces(line, k) ==
  IF \E l \in k..Len(line) : line[l] # " "
  THEN CHOOSE l \in k..Len(line) :
         line[l] # " " /\ \A before \in k..(l - 1) : line[before] = " "
  ELSE Len(line) + 1

\* where re.search(r'word\s*[separators]\s*(.+)', line) can match: the
\* positions of the separator
separator_after(line, words, separators) ==
  {q \in 1..Len(line) :
     /\ line[q] \in separators
     /\ q < Len(line)
     /\ \E k \in 1..(q - 1) : line[k] \in words /\ skip_spaces(line, k + 1) = q}

\* match.group(1).strip() of re.search(r'नाम\s*[:;!]\s*(.+)', line), or NaN
\* when there is no match
name_match(line) ==
  LET found == separator_after(line, {"naam"}, {":", ";", "!"})
  IN IF found = {} THEN NaN
     ELSE LET q == CHOOSE q \in found : \A other \in found : q <= other
          IN <<strip(SubSeq(line, q + 1, Len(line)))>>

\* the run of digits that re.search(r'[separators]\s*([०-९0-9]...)', line)
\* matches from: the first run of `low` digits at least that follows a
\* separator, or NaN
digits_after(line, separators, low) ==
  LET found == {q \in 1..Len(line) :
                  /\ line[q] \in separators
                  /\ skip_spaces(line, q + 1) <= Len(line)
                  /\ is_digits(line[skip_spaces(line, q + 1)])
                  /\ Len(DigitChars[line[skip_spaces(line, q + 1)]]) >= low}
  IN IF found = {} THEN NaN
     ELSE LET q == CHOOSE q \in found : \A other \in found : q <= other
          IN <<DigitChars[line[skip_spaces(line, q + 1)]]>>

\* group(1) of re.search(r'[:;]\s*([०-९0-9]{2,3})', line): the first 3
\* digits at most of the run, or NaN
age_digits(line) ==
  LET run == digits_after(line, {":", ";"}, 2)
  IN IF run = NaN THEN NaN
     ELSE <<SubSeq(run[1], 1, IF Len(run[1]) < 3 THEN Len(run[1]) ELSE 3)>>

\* the tokens re.search(r'word\s*[separators]\s*', line) can be followed by
tokens_after(line, words, separators) ==
  {line[r] : r \in {r \in 1..Len(line) :
     \E k \in 1..Len(line) :
       /\ line[k] \in words
       /\ skip_spaces(line, k + 1) < r
       /\ line[skip_spaces(line, k + 1)] \in separators
       /\ skip_spaces(line, skip_spaces(line, k + 1) + 1) = r}}

\* group(1) of re.search(r'([०-९0-9]+)', line), or NaN
first_digits(line) ==
  IF \E k \in 1..Len(line) : is_digits(line[k])
  THEN <<DigitChars[line[CHOOSE k \in 1..Len(line) :
                          /\ is_digits(line[k])
                          /\ \A before \in 1..(k - 1) :
                               ~is_digits(line[before])]]>>
  ELSE NaN

\* the name branch of the loop body
parse_name(lines, i, details) ==
  LET line == lines[i]
      match == name_match(line)
  IN IF ~contains_in_order(line, {"nirvachak"}, {"naam"}) THEN details
     ELSE IF match # NaN
     THEN IF /\ Len(string_of(match[1])) > 2
             /\ ~contains(match[1], {"pita", "pati", "makan", "umra"})
          THEN [details EXCEPT !.name = <<string_of(match[1])>>]
          ELSE details
     ELSE IF /\ i + 1 <= Len(lines)
             /\ ~contains(lines[i + 1], {"pita", "pati", "makan", "umra"})
     THEN [details EXCEPT !.name = <<string_of(strip(lines[i + 1]))>>]
     ELSE details

\* the father/husband branch
parse_father(lines, i, details) ==
  LET line == lines[i]
      match == name_match(line)
  IN IF ~contains_in_order(line, {"pita", "pati"}, {"naam"}) THEN details
     ELSE IF match # NaN
     THEN IF /\ Len(string_of(match[1])) > 2
             /\ ~contains(match[1], {"makan"})
          THEN [details EXCEPT
                  !.father_husband_name = <<string_of(match[1])>>]
          ELSE details
     ELSE IF /\ i + 1 <= Len(lines)
             /\ ~contains(lines[i + 1], {"makan", "umra"})
     THEN [details EXCEPT
             !.father_husband_name = <<string_of(strip(lines[i + 1]))>>]
     ELSE details

\* the house branch: the digits are kept as written
parse_house(lines, i, details) ==
  LET line == lines[i]
      match == digits_after(line, {":", ";", "!", "*"}, 1)
  IN IF ~contains_in_order(line, {"makan"}, {"sankhya"}) THEN details
     ELSE IF match # NaN THEN [details EXCEPT !.house_number = match]
     ELSE IF i + 1 <= Len(lines) /\ first_digits(lines[i + 1]) # NaN
     THEN [details EXCEPT !.house_number = first_digits(lines[i + 1])]
     ELSE details

\* the age branch with every parsed number accepted
parse_age_unchecked(line, details) ==
  LET age_match == age_digits(line)
  IN IF age_match = NaN THEN details
     ELSE [details EXCEPT
             !.age = <<int([k \in 1..Len(age_match[1]) |->
                             to_arabic(age_match[1][k])])>>]

\* the age branch: 2 or 3 digits after a separator, converted, kept when
\* 18 <= age <= 120
parse_age(line, details) ==
  LET age_match == age_digits(line)
  IN IF age_match = NaN THEN details
     ELSE LET age_str == [k \in 1..Len(age_match[1]) |->
                            to_arabic(age_match[1][k])]
              age == int(age_str)
          IN IF 18 <= age /\ age <= 120
             THEN [details EXCEPT !.age = <<age>>]
             ELSE details

\* the gender branch: the word for female, or its first letters after the
\* label, is looked for before the word for male
parse_gender(line, details) ==
  LET after_label == tokens_after(line, {"ling"}, {":", ";"})
  IN IF ~contains(line, {"ling"}) THEN details
     ELSE IF \/ contains(line, {"mahila"})
             \/ after_label \cap {"mahila", "ma"} # {}
     THEN [details EXCEPT !.gender = <<"F">>]
     ELSE IF \/ contains(line, {"purush"})
             \/ after_label \cap {"purush", "pu"} # {}
     THEN [details EXCEPT !.gender = <<"M">>]
     ELSE details

RECURSIVE parse_lines(_, _, _)
\* for i, line in enumerate(lines)
parse_lines(lines, i, details) ==
  IF i > Len(lines) THEN details
  ELSE LET line == lines[i]
           named == parse_name(lines, i, details)
           fathered == parse_father(lines, i, named)
           housed == parse_house(lines, i, fathered)
           aged == IF contains(line, {"umra"})
                   THEN parse_gender(line, parse_age(line, housed))
                   ELSE housed
       IN parse_lines(lines, i + 1, aged)

parse_structured_fields(text) ==
  parse_lines(stripped_lines(text), 1,
              [name |-> NaN, father_husband_name |-> NaN,
               house_number |-> NaN, age |-> NaN, gender |-> NaN])

\* lines an OCR text is made of
OcrLines ==
  { <<"nirvachak", " ", "ka", " ", "naam", " ", ":", " ", "Ram", " ">>,
    <<"nirvachak", " ", "ka", " ", "naam", ":", "Al">>,
    <<"nirvachak", " ", "ka", " ", "naam">>,
    <<"Sita">>,
    <<" ", " ">>,
    <<"pita", " ", "ka", " ", "naam", ";", "Mohan">>,
    <<"pati", " ", "ka", " ", "naam", " ">>,
    <<"makan", " ", "sankhya", ":", "45">>,
    <<"umra", ":", " ", "45", " ", "ling", ":", "purush">>,
    <<"umra", ":", "17", " ", "ling", ":", " ", "ma">>,
    <<"umra", ";", "1215", " ", "ling", " ", "pu">>,
    <<"umra", ":", "dev45">>,
    <<"umra", ":", "5", " ", "mahila">>,
    <<"umra", ":", "120", " ", "ling", ":", "mahila">> }

\* the OCR texts: up to MaxLines lines
OcrTexts == UNION {[1..n -> OcrLines] : n \in 0..MaxLines}

ParseStructuredFields ==
  /\ parsed' = <<parse_structured_fields(ocr_text)>>
  /\ UNCHANGED <<csv, photos, df, scenario_1, scenario_2, scenario_2b,
                 scenario_3, all_frauds, threshold, outcome, again, summary,
                 workers, pipeline_vars, ocr_text>>

InitParser == \E text \in OcrTexts : Started(<<>>, NoFiles, text)

NextParser == ParseStructuredFields

SpecParser == InitParser /\ [][NextParser]_vars

---------------------------------------------------------------------------
(* main: the PDFs of data/input_pdfs are cut into card files, the card files
   are read into the voter data, the detector runs on it and the report is
   written.  A card file is named by its page and its place on the page. *)

MaxPdfs == 2

\* a card of someone else, without a face
Other ==
  [cells |-> [Blank EXCEPT !.name = <<"B">>, !.father_husband_name = <<"Y">>,
                           !.house_number = <<8>>],
   encoding |-> NaN, photo |-> NaN]

\* a box of the grid whose crop is under 50 pixels
TooSmall == NaN

\* the PDFs: two front pages, then pages of boxes
Pdfs ==
  LET front == << <<<<Duplicate>>>>, <<>> >>
  IN { front \o << <<<<Duplicate>>, <<Duplicate>>>> >>,
       front \o << <<<<Other>>>> >>,
       front \o << <<TooSmall, <<Other>>>>, <<<<Duplicate>>>> >>,
       front \o << <<>> >> }

\* pdf_files: what the glob returns
PdfFiles == UNION {[1..n -> Pdfs] : n \in 0..MaxPdfs}

\* card_filename without its extension (the card_id of process_card)
card_filename(file) ==
  "page_" \o ToString(file.page) \o "_card_" \o ToString(file.card_index)

\* the loop over card_boxes: a file is written for every box that is not
\* too small, named by the place of the box among all boxes of the page;
\* the files after the loop and the number of cards appended
crop_cards_from_image(card_boxes, page_num, files) ==
  LET kept == {idx \in 0..(Len(card_boxes) - 1) :
                 card_boxes[idx + 1] # TooSmall}
      written == {[page |-> page_num + 1, card_index |-> idx + 1] :
                    idx \in kept}
  IN [files |-> [file \in written |-> card_boxes[file.card_index][1]]
                @@ files,
      cards |-> Cardinality(kept)]

RECURSIVE process_all_pages(_, _, _)
\* for page_num in range(start_page, end_page), with end_page = len(doc)
process_all_pages(doc, page_num, files) ==
  IF page_num >= Len(doc) THEN [files |-> files, cards |-> 0]
  ELSE LET page == crop_cards_from_image(doc[page_num + 1], page_num, files)
           rest == process_all_pages(doc, page_num + 1, page.files)
       IN [files |-> rest.files, cards |-> page.cards + rest.cards]

RECURSIVE extract_cards(_, _)
\* STEP 1: the loop over pdf_files, total_cards += len(cards)
extract_cards(pdf_files, files) ==
  IF pdf_files = <<>> THEN [files |-> files, cards |-> 0]
  ELSE LET first == process_all_pages(Head(pdf_files), 2, files)
           rest == extract_cards(Tail(pdf_files), first.files)
       IN [files |-> rest.files, cards |-> first.cards + rest.cards]

\* the decimal digits of a number below 100, as character codes
decimal(n) ==
  IF n < 10 THEN <<48 + n>> ELSE <<48 + (n \div 10), 48 + (n % 10)>>

\* the characters by which two card file names differ: the page number up
\* to its '_' and the card number up to its '.'
name_chars(file) ==
  decimal(file.page) \o <<95>> \o decimal(file.card_index) \o <<46>>

RECURSIVE str_less(_, _)
\* a < b for strings of which neither is a prefix of the other
str_less(a, b) ==
  IF Head(a) # Head(b) THEN Head(a) < Head(b)
  ELSE str_less(Tail(a), Tail(b))

\* sorted(self.cards_dir.glob("page_*_card_*.jpg")): a file comes after as
\* many files as have a smaller name
sorted(card_files) ==
  LET before(file) == {other \in card_files \ {file} :
                         str_less(name_chars(other), name_chars(file))}
  IN [i \in 1..Cardinality(card_files) |->
        CHOOSE file \in card_files : Cardinality(before(file)) = i - 1]

\* the row process_card returns for a card file
process_card(file, card_img) ==
  csv_row(card_filename(file),
          [card_img.cells EXCEPT
             !.face_encoding = card_img.encoding,
             !.face_path = IF card_img.photo = NaN THEN NaN
                           ELSE <<card_filename(file) \o "_face.jpg">>])

\* process_all_cards: a row for every file of the directory, in the order
\* of the file names
process_all_cards(files) ==
  LET card_files == sorted(DOMAIN files)
  IN [i \in 1..Len(card_files) |->
        process_card(card_files[i], files[card_files[i]])]

\* the face crops process_card writes beside those already there
save_faces(files, faces) ==
  LET with_face == {f \in DOMAIN files : files[f].photo # NaN}
      written == {card_filename(f) \o "_face.jpg" : f \in with_face}
  IN [path \in written |->
        files[CHOOSE f \in with_face :
                card_filename(f) \o "_face.jpg" = path].photo[1]]
     @@ faces

\* pd.DataFrame(all_frauds).to_csv(): the columns of all findings, a
\* finding without a column having an empty cell
to_csv(findings) ==
  LET columns == UNION {DOMAIN findings[k] : k \in 1..Len(findings)}
  IN [k \in 1..Len(findings) |->
        [column \in columns |->
           IF column \in DOMAIN findings[k] THEN <<findings[k][column]>>
           ELSE NaN]]

\* generate_report: nothing is written for an empty frame
generate_report(frauds_df, report) ==
  IF frauds_df = <<>> THEN report ELSE <<to_csv(frauds_df)>>

\* FINAL STATISTICS
final_statistics(voter_data, frauds) ==
  [voters |-> Len(voter_data),
   frauds |-> Len(frauds),
   scenario_1 |-> IF Len(frauds) > 0
                  THEN <<count_of(frauds, "FAKE_DETAILS")>> ELSE NaN,
   scenario_2 |-> IF Len(frauds) > 0
                  THEN <<count_of(frauds, "FAKE_FACE")>> ELSE NaN,
   fraud_rate |-> IF Len(frauds) > 0
                  THEN <<round(Len(frauds) * 100 * Pct, Len(voter_data), 2)>>
                  ELSE NaN]

\* main(): returns at once without PDFs; process_all_cards raises on a
\* directory without card files (the empty frame has no column)
Main ==
  \E pdf_files \in PdfFiles :
    LET extracted == extract_cards(pdf_files, extracted_cards)
        voter_data == process_all_cards(extracted.files)
        faces == save_faces(extracted.files, photos)
        frauds == detect_all_frauds(load_frame(voter_data), faces)
    IN IF pdf_files = <<>>
       THEN /\ statistics' = NaN
            /\ UNCHANGED <<csv, photos, df, scenario_1, scenario_2,
                           scenario_2b, scenario_3, all_frauds, threshold,
                           outcome, again, summary, workers, extracted_cards,
                           total_cards, report_file, review_data,
                           review_outcome, parser_vars>>
       ELSE IF DOMAIN extracted.files = {}
       THEN /\ extracted_cards' = extracted.files
            /\ total_cards' = extracted.cards
            /\ statistics' = NaN
            /\ UNCHANGED <<csv, photos, df, scenario_1, scenario_2,
                           scenario_2b, scenario_3, all_frauds, threshold,
                           outcome, again, summary, workers, report_file,
                           review_data, review_outcome, parser_vars>>
       ELSE /\ extracted_cards' = extracted.files
            /\ total_cards' = extracted.cards
            /\ photos' = faces
            /\ csv' = voter_data
            /\ df' = load_frame(voter_data)
            /\ all_frauds' = frauds
            /\ summary' = <<fraud_summary(frauds)>>
            /\ outcome' = [m \in Methods |->
                             IF m = "detect_all_frauds" THEN Returned
                             ELSE NotRun]
            /\ again' = FALSE
            /\ scenario_1' = <<>> /\ scenario_2' = <<>>
            /\ scenario_2b' = <<>> /\ scenario_3' = <<>>
            /\ threshold' = 30
            /\ report_file' = generate_report(frauds, report_file)
            /\ statistics' = <<final_statistics(voter_data, frauds)>>
            /\ UNCHANGED <<workers, review_data, review_outcome,
                           parser_vars>>

\* pd.read_csv of the report: the cells written as N/A are read as missing
read_report(report) ==
  [k \in 1..Len(report) |->
     [column \in DOMAIN report[k] |->
        IF /\ column \in {"name_1", "name_2", "father_1", "father_2"}
           /\ report[k][column] = <<"N/A">>
        THEN NaN ELSE report[k][column]]]

\* voters_df[voters_df['card_id'] == card]: the rows of a card
rows_of(voters_df, card) ==
  LET is_card(row) == card # NaN /\ row.card_id = card[1]
  IN SelectSeq(voters_df, is_card)

\* the entry appended for a finding of the report, if any
review_entry(idx, fraud, voter_1, voter_2) ==
  LET entry(fraud_type, similarity) ==
        [fraud_number |-> idx + 1,
         fraud_type |-> fraud_type,
         card_1 |-> fraud.card_1[1],
         card_1_name |-> voter_1.name,
         card_1_father |-> voter_1.father_husband_name,
         card_1_age |-> voter_1.age,
         card_1_house |-> voter_1.house_number,
         card_2 |-> fraud.card_2[1],
         card_2_name |-> voter_2.name,
         card_2_father |-> voter_2.father_husband_name,
         card_2_age |-> voter_2.age,
         card_2_house |-> voter_2.house_number,
         similarity |-> similarity]
  IN IF fraud.fraud_type = <<"FAKE_DETAILS">>
     THEN <<entry("DUPLICATE_DETAILS", NaN)>>
     ELSE IF fraud.fraud_type = <<"FAKE_FACE">>
     THEN <<entry("DUPLICATE_FACE", fraud.face_similarity_percent)>>
     ELSE <<>>

RECURSIVE review_rows(_, _, _, _)
\* the loop over the rows of the report from row k on: the entries appended
\* and whether a row raised (no card_1 column, or no voter with the card)
review_rows(frauds_df, voters_df, k, acc) ==
  IF k > Len(frauds_df) THEN [review_data |-> acc, raised |-> FALSE]
  ELSE LET fraud == frauds_df[k]
       IN IF \/ {"card_1", "card_2", "fraud_type"} \ DOMAIN fraud # {}
             \/ rows_of(voters_df, fraud.card_1) = <<>>
             \/ rows_of(voters_df, fraud.card_2) = <<>>
          THEN [review_data |-> acc, raised |-> TRUE]
          ELSE review_rows(frauds_df, voters_df, k + 1,
                           acc \o review_entry(
                                    k - 1, fraud,
                                    rows_of(voters_df, fraud.card_1)[1],
                                    rows_of(voters_df, fraud.card_2)[1]))

\* generate_fraud_review_report(): read_csv raises without a report file;
\* a row that raises ends the call before the review file is written; a
\* review without entries is written and the summary raises (no column)
GenerateFraudReviewReport ==
  LET frauds_df == read_report(report_file[1])
      review == review_rows(frauds_df, csv, 1, <<>>)
  IN /\ IF report_file = NaN
        THEN review_outcome' = Raised /\ UNCHANGED review_data
        ELSE IF Len(frauds_df) = 0
        THEN review_outcome' = Returned /\ UNCHANGED review_data
        ELSE IF review.raised
        THEN review_outcome' = Raised /\ UNCHANGED review_data
        ELSE /\ review_data' = review.review_data
             /\ review_outcome' = IF review.review_data = <<>> THEN Raised
                                  ELSE Returned
     /\ UNCHANGED <<csv, photos, df, scenario_1, scenario_2, scenario_2b,
                    scenario_3, all_frauds, threshold, outcome, again,
                    summary, workers, extracted_cards, total_cards,
                    report_file, statistics, parser_vars>>

\* generate_report(frauds) on the frame detect_all_frauds returned
GenerateReport ==
  /\ outcome["detect_all_frauds"] = Returned
  /\ report_file' = generate_report(all_frauds, report_file)
  /\ UNCHANGED <<csv, photos, df, scenario_1, scenario_2, scenario_2b,
                 scenario_3, all_frauds, threshold, outcome, again, summary,
                 workers, extracted_cards, total_cards, statistics,
                 review_data, review_outcome, parser_vars>>

InitPipeline == Constructed(<<>>, NoFiles)

NextPipeline ==
  \/ Main
  \/ GenerateFraudReviewReport

SpecPipeline == InitPipeline /\ [][NextPipeline]_vars

\* the detector, the report and the review called by hand on a data file
NextReport ==
  \/ DetectAllFrauds
  \/ GenerateReport
  \/ GenerateFraudReviewReport

SpecReport == InitAll /\ [][NextReport]_vars

---------------------------------------------------------------------------
(* A detector on which the five methods are called in any order, any number
   of times, over records with any of the optional cells missing *)

RunProfiles ==
  { [cells |-> FullCells, encoding |-> <<"[0.0]">>, photo |-> <<<<0>>>>],
    [cells |-> Blank, encoding |-> NaN, photo |-> NaN],
    [cells |-> [Blank EXCEPT !.house_number = <<7>>],
     encoding |-> <<"[0.0]">>, photo |-> <<<<0>>>>],
    [cells |-> [FullCells EXCEPT !.gender = NaN, !.house_number = NaN],
     encoding |-> NaN, photo |-> <<<<11>>>>] }

InitRun ==
  \E n \in 0..MaxRecords :
    \E profile \in [1..n -> RunProfiles] :
      Constructed(
        [i \in 1..n |->
           csv_row(card_name(i),
                   [profile[i].cells EXCEPT
                      !.face_encoding = profile[i].encoding,
                      !.face_path = IF profile[i].photo = NaN THEN NaN
                                    ELSE <<face_file(i)>>])],
        photo_files(n, [i \in 1..n |-> profile[i].photo]))

NextRun ==
  \/ DetectScenario1
  \/ DetectScenario2
  \/ DetectDuplicatePhotos
  \/ DetectAddressAnomalies
  \/ DetectAllFrauds

SpecRun == InitRun /\ [][NextRun]_vars

---------------------------------------------------------------------------
(* Properties *)

Ran(method) == outcome[method] = Returned

\* the findings of a list that name the two cards, in either order
FindingsOf(findings, a, b) ==
  {k \in 1..Len(findings) :
     \/ findings[k].card_1 = a /\ findings[k].card_2 = b
     \/ findings[k].card_1 = b /\ findings[k].card_2 = a}

\* a cell is present on both rows and the two values differ
PresentAndDifferent(x, y) == x # NaN /\ y # NaN /\ x # y

\* the exact-detail criteria of the contract
DetailCriteria(r1, r2) ==
  /\ r1.name # NaN /\ r2.name # NaN
  /\ r1.father_husband_name # NaN /\ r2.father_husband_name # NaN
  /\ r1.name = r2.name
  /\ r1.father_husband_name = r2.father_husband_name
  /\ ~PresentAndDifferent(r1.age, r2.age)
  /\ ~PresentAndDifferent(r1.gender, r2.gender)

\* C1: detect_scenario_1_fake_details reports a pair of distinct records if
\* and only if name and father_husband_name are present on both and equal,
\* and neither age nor gender is present on both sides with different values;
\* every finding is such a pair.
C1_FakeDetailsIff ==
  Ran("detect_scenario_1_fake_details") =>
    /\ \A i \in 1..Len(df) : \A j \in (i + 1)..Len(df) :
         (FindingsOf(scenario_1, df[i].card_id, df[j].card_id) # {})
           <=> DetailCriteria(df[i], df[j])
    /\ \A k \in 1..Len(scenario_1) :
         \E i \in 1..Len(df) : \E j \in (i + 1)..Len(df) :
           /\ scenario_1[k].card_1 = df[i].card_id
           /\ scenario_1[k].card_2 = df[j].card_id

\* C1 witness: name and father equal, age absent on one side only, reported
C1_Witness ==
  /\ Ran("detect_scenario_1_fake_details")
  /\ Len(df) = 2
  /\ df[1].age = NaN /\ df[2].age # NaN
  /\ Len(scenario_1) = 1

---------------------------------------------------------------------------
(* Face-similarity matcher *)

\* (1 - distance) * 100 of two rows with an embedding, in Pct units
Similarity(r1, r2) ==
  LET a == r1.face_encoding[1]
      b == r2.face_encoding[1]
      distance == IF a >= b THEN a - b ELSE b - a
  IN ((One - distance) * 100) \div (One \div Pct)

BothEncoded(r1, r2) == r1.face_encoding # NaN /\ r2.face_encoding # NaN

RowOf(card_id) == df[CHOOSE i \in 1..Len(df) : df[i].card_id = card_id]

\* y is x rounded to a multiple of unit: a nearest one
RoundedTo(y, x, unit) ==
  /\ y % unit = 0
  /\ 2 * (y - x) <= unit
  /\ 2 * (x - y) <= unit

Critical == "CRITICAL FRAUD - SAME FACE, DIFFERENT NAMES"
Likely == "LIKELY FRAUD - SAME PERSON"

\* what C5 expects of a finding, given how the confidence relates to s + delta
EvidenceRule(f, Relates(_, _)) ==
  LET r1 == RowOf(f.card_1)
      r2 == RowOf(f.card_2)
      s == Similarity(r1, r2)
  IN IF r1.name # NaN /\ r2.name # NaN /\ r1.name # r2.name
     THEN Relates(f.confidence_score, s + 5 * Pct) /\ f.likelihood = Critical
     ELSE IF r1.name # NaN /\ r2.name # NaN
     THEN Relates(f.confidence_score, s - 5 * Pct) /\ f.likelihood = Likely
     ELSE Relates(f.confidence_score, s) /\ f.likelihood = Likely

Equals(y, x) == y = x

ToOneDecimal(y, x) == RoundedTo(y, x, Pct \div 10)

\* C5 as stated: the confidence_score of every FAKE_FACE finding is s + 5
\* (names present and different, CRITICAL), s - 5 (names present and equal,
\* LIKELY) or s (a name absent, LIKELY), s being the similarity before
\* rounding.
C5_ConfidenceIsExact ==
  Ran("detect_scenario_2_fake_face") =>
    \A k \in 1..Len(scenario_2) : EvidenceRule(scenario_2[k], Equals)

\* C5 amended: the confidence_score of every FAKE_FACE finding is s + 5,
\* s - 5 or s as above, rounded to one decimal place, with the CRITICAL
\* class exactly when both names are present and different.
C5_ConfidenceIsRounded ==
  Ran("detect_scenario_2_fake_face") =>
    \A k \in 1..Len(scenario_2) : EvidenceRule(scenario_2[k], ToOneDecimal)

\* C5 witness: similarity 85 with different names gives 90.0 and CRITICAL
C5_Witness ==
  /\ Ran("detect_scenario_2_fake_face")
  /\ \E k \in 1..Len(scenario_2) :
       LET f == scenario_2[k]
       IN /\ Similarity(RowOf(f.card_1), RowOf(f.card_2)) = 85 * Pct
          /\ RowOf(f.card_1).name = <<"A">>
          /\ RowOf(f.card_2).name = <<"B">>
          /\ f.confidence_score = 90 * Pct
          /\ f.likelihood = Critical

\* other values of the cells the face matcher does not match on (the frames
\* of the face specification have these cells absent, or the name present)
AltCells ==
  { [name |-> <<"A">>, father_husband_name |-> <<"X">>, age |-> <<30>>,
     gender |-> <<"M">>, house_number |-> <<7>>],
    [name |-> <<"B">>, father_husband_name |-> <<"Y">>, age |-> <<31>>,
     gender |-> <<"F">>, house_number |-> <<8>>] }

\* the frame with the same cards and embeddings and the other cells replaced
WithCells(d, alt) ==
  [i \in 1..Len(d) |->
     [d[i] EXCEPT !.name = alt[i].name,
                  !.father_husband_name = alt[i].father_husband_name,
                  !.age = alt[i].age,
                  !.gender = alt[i].gender,
                  !.house_number = alt[i].house_number]]

\* the pairs a finding list reports, with their similarity
BiometricView(findings) ==
  {<<findings[k].card_1, findings[k].card_2,
     findings[k].face_similarity_percent>> : k \in 1..Len(findings)}

\* C6: record sets with the same card ids and face encodings in the same
\* order, whatever their names, father names, ages, genders and house
\* numbers, get the same FAKE_FACE pairs with the same
\* face_similarity_percent.
C6_NamesNeverDisqualify ==
  Ran("detect_scenario_2_fake_face") =>
    \A alt \in [1..Len(df) -> AltCells] :
      BiometricView(detect_scenario_2_fake_face(WithCells(df, alt)))
        = BiometricView(scenario_2)

\* C6 witness: a reported pair with equal names whose finding changes, but
\* not its pair or similarity, when the names are made different
C6_Witness ==
  /\ Ran("detect_scenario_2_fake_face")
  /\ Len(df) = 2
  /\ Len(scenario_2) = 1
  /\ df[1].name = <<"A">> /\ df[2].name = <<"A">>
  /\ \E alt \in [1..Len(df) -> AltCells] :
       /\ alt[1].name = <<"A">> /\ alt[2].name = <<"B">>
       /\ detect_scenario_2_fake_face(WithCells(df, alt)) # scenario_2

---------------------------------------------------------------------------
(* Photo-hash deduplicator *)

\* the row has a face_path and its photo loads
Hashed(row) == row.face_path # NaN /\ photos[row.face_path[1]] # Unreadable

\* the perceptual hash computed for a row's photo, with the configured size
HashOf(row) == average_hash(photos[row.face_path[1]][1], 16)

\* y is num / den rounded to a multiple of unit: a nearest one
RoundedFraction(y, num, den, unit) ==
  /\ y % unit = 0
  /\ 2 * (den * y - num) <= den * unit
  /\ 2 * (num - den * y) <= den * unit

\* C3: in every DUPLICATE_PHOTO finding, photo_similarity is
\* (1 - hash_difference / hash_bit_length) * 100 (to two decimals), where
\* hash_bit_length is the number of bits of the hash computed with the
\* configured hash_size.
C3_SimilarityOverHashLength ==
  Ran("detect_exact_duplicate_photos") =>
    \A k \in 1..Len(scenario_2b) :
      LET bits == hash_bits(16)
      IN RoundedFraction(scenario_2b[k].photo_similarity,
                         (bits - scenario_2b[k].hash_difference) * 100 * Pct,
                         bits, Pct \div 100)

\* C7: every pair of hashed photos at distance d gives exactly one finding,
\* EXACT SAME PHOTO, when d <= 5; exactly one, VERY SIMILAR PHOTO, when
\* 5 < d <= 10; and none when d > 10.
C7_PhotoClasses ==
  Ran("detect_exact_duplicate_photos") =>
    \A i \in 1..Len(df) : \A j \in (i + 1)..Len(df) :
      (Hashed(df[i]) /\ Hashed(df[j])) =>
        LET d == hash_sub(HashOf(df[i]), HashOf(df[j]))
            found == FindingsOf(scenario_2b, df[i].card_id, df[j].card_id)
        IN /\ d <= 5 =>
                /\ Cardinality(found) = 1
                /\ \A k \in found :
                     scenario_2b[k].likelihood
                       = "EXACT SAME PHOTO - DEFINITE FRAUD"
           /\ (5 < d /\ d <= 10) =>
                /\ Cardinality(found) = 1
                /\ \A k \in found :
                     scenario_2b[k].likelihood
                       = "VERY SIMILAR PHOTO - LIKELY FRAUD"
           /\ d > 10 => found = {}

\* C7 witness: three photos at distances 5, 6 and 11 of the first, of the
\* second and of each other
C7_Witness ==
  /\ Ran("detect_exact_duplicate_photos")
  /\ Len(df) = 3
  /\ Hashed(df[1]) /\ Hashed(df[2]) /\ Hashed(df[3])
  /\ hash_sub(HashOf(df[1]), HashOf(df[2])) = 5
  /\ hash_sub(HashOf(df[2]), HashOf(df[3])) = 6
  /\ hash_sub(HashOf(df[1]), HashOf(df[3])) = 11
  /\ Len(scenario_2b) = 2

\* the frame with the face_path of row i removed
WithoutFacePath(d, i) == [d EXCEPT ![i].face_path = NaN]

\* the row has a face_path whose photo fails to load
FailsToHash(row) ==
  row.face_path # NaN /\ photos[row.face_path[1]] = Unreadable

\* C8: a photo that fails to load does not abort the pass: its record is in
\* no DUPLICATE_PHOTO finding, and the findings are those the frame would
\* give had that record no face_path.
C8_FailedPhotoSkipped ==
  Ran("detect_exact_duplicate_photos") =>
    \A i \in 1..Len(df) :
      FailsToHash(df[i]) =>
        /\ \A k \in 1..Len(scenario_2b) :
             /\ scenario_2b[k].card_1 # df[i].card_id
             /\ scenario_2b[k].card_2 # df[i].card_id
        /\ scenario_2b
             = detect_exact_duplicate_photos(WithoutFacePath(df, i), photos)

\* C8 witness: the first photo fails and the two after it are still paired
C8_Witness ==
  /\ Ran("detect_exact_duplicate_photos")
  /\ Len(df) = 3
  /\ FailsToHash(df[1])
  /\ Len(scenario_2b) = 1
  /\ scenario_2b[1].card_1 = df[2].card_id
  /\ scenario_2b[1].card_2 = df[3].card_id

---------------------------------------------------------------------------
(* Address-anomaly detector *)

\* the house numbers present in the frame
HouseNumbers ==
  {df[i].house_number[1] : i \in {k \in 1..Len(df) : df[k].house_number # NaN}}

\* the rows of the frame at a house number
VotersAt(house_num) ==
  {i \in 1..Len(df) : df[i].house_number = <<house_num>>}

\* the findings of the last address call for a house number
AnomaliesAt(house_num) ==
  {k \in 1..Len(scenario_3) : scenario_3[k].house_number = house_num}

\* the tier of the contract for a group of `count` voters
Tier(count) ==
  CASE count >= 50 -> "CRITICAL"
    [] 40 <= count /\ count < 50 -> "HIGH"
    [] 30 <= count /\ count < 40 -> "MEDIUM"
    [] OTHER -> "none"

\* C10: detect_address_anomalies emits exactly one finding for each house
\* number with at least suspicious_threshold voters and none for any other;
\* with the default threshold of 30 the risk level is MEDIUM for 30..39
\* voters, HIGH for 40..49 and CRITICAL from 50.
C10_AddressTiers ==
  Ran("detect_address_anomalies") =>
    /\ \A h \in HouseNumbers :
         LET count == Cardinality(VotersAt(h))
         IN IF count >= threshold
            THEN /\ Cardinality(AnomaliesAt(h)) = 1
                 /\ \A k \in AnomaliesAt(h) :
                      /\ scenario_3[k].voter_count = count
                      /\ threshold = 30 =>
                           scenario_3[k].risk_level = Tier(count)
            ELSE AnomaliesAt(h) = {}
    /\ \A k \in 1..Len(scenario_3) :
         scenario_3[k].house_number \in HouseNumbers

\* C10 witness: a group of exactly 30 is MEDIUM and one of exactly 50
\* CRITICAL in the same default-threshold call
C10_Witness ==
  /\ Ran("detect_address_anomalies")
  /\ threshold = 30
  /\ Len(scenario_3) = 2
  /\ \E k \in 1..2 : /\ scenario_3[k].voter_count = 30
                     /\ scenario_3[k].risk_level = "MEDIUM"
  /\ \E k \in 1..2 : /\ scenario_3[k].voter_count = 50
                     /\ scenario_3[k].risk_level = "CRITICAL"

\* the rows of the frame without a house number
Houseless == {i \in 1..Len(df) : df[i].house_number = NaN}

\* C11: every ADDRESS_ANOMALY finding is for a house number some record
\* has, and its voter_count is the number of records whose house_number is
\* present and equal to it; the records without a house number, however
\* many, get no finding of their own.
C11_AbsentHouseNeverGrouped ==
  Ran("detect_address_anomalies") =>
    /\ \A k \in 1..Len(scenario_3) :
         /\ scenario_3[k].house_number \in HouseNumbers
         /\ scenario_3[k].voter_count
              = Cardinality(VotersAt(scenario_3[k].house_number))
    /\ Len(scenario_3) <= Cardinality(HouseNumbers)

\* C11 witness: 30 records without a house number, a threshold they reach,
\* and an address group that is reported
C11_Witness ==
  /\ Ran("detect_address_anomalies")
  /\ Cardinality(Houseless) >= 30
  /\ threshold <= 30
  /\ Len(scenario_3) = 1

\* the card ids of the first `limit` members of an address group, in the
\* order of the records
FirstMembers(house_num, limit) ==
  LET members == VotersAt(house_num)
      size == IF Cardinality(members) < limit THEN Cardinality(members)
              ELSE limit
      nth(n) == CHOOSE i \in members :
                  Cardinality({j \in members : j <= i}) = n
  IN [n \in 1..size |-> df[nth(n)].card_id]

\* C12 as stated: the sample of card ids of every ADDRESS_ANOMALY finding is
\* the first min(10, voter_count) members of the group in record order, and
\* nothing else.
C12_SampleIsFirstTen ==
  Ran("detect_address_anomalies") =>
    \A k \in 1..Len(scenario_3) :
      scenario_3[k].cards
        = join(", ", FirstMembers(scenario_3[k].house_number, 10))

\* C12 amended: the sample of every ADDRESS_ANOMALY finding is the text of
\* the first min(10, voter_count) members of the group in record order,
\* joined by ", " and always followed by "...".
C12_SampleIsFirstTenThenEllipsis ==
  Ran("detect_address_anomalies") =>
    \A k \in 1..Len(scenario_3) :
      scenario_3[k].cards
        = join(", ", FirstMembers(scenario_3[k].house_number, 10)) \o "..."

\* C12 witness: a group of 11 that starts after other records is sampled by
\* its first 10 members
C12_Witness ==
  /\ Ran("detect_address_anomalies")
  /\ \E k \in 1..Len(scenario_3) :
       /\ scenario_3[k].voter_count = 11
       /\ scenario_3[k].house_number = 7
       /\ df[1].house_number # <<7>>
       /\ scenario_3[k].cards
            = join(", ", [n \in 1..10 |-> df[Len(df) - 11 + n].card_id])
              \o "..."

\* the values of a column present among the records of an address group
PresentValues(house_num, column) ==
  {df[i][column] : i \in VotersAt(house_num)} \ {NaN}

\* C13: unique_names and unique_fathers of every ADDRESS_ANOMALY finding are
\* the numbers of distinct name and father_husband_name values present in
\* the group; absent cells add nothing, so the counts lie between 0 and
\* voter_count.
C13_UniqueCountsPresentValues ==
  Ran("detect_address_anomalies") =>
    \A k \in 1..Len(scenario_3) :
      LET f == scenario_3[k]
      IN /\ f.unique_names
              = Cardinality(PresentValues(f.house_number, "name"))
         /\ f.unique_fathers
              = Cardinality(PresentValues(f.house_number,
                                          "father_husband_name"))
         /\ 0 <= f.unique_names /\ f.unique_names <= f.voter_count
         /\ 0 <= f.unique_fathers /\ f.unique_fathers <= f.voter_count

\* C13 witness: a reported group where no record has a name (0 unique
\* names) and the fathers take two values with some absent
C13_Witness ==
  /\ Ran("detect_address_anomalies")
  /\ \E k \in 1..Len(scenario_3) :
       /\ scenario_3[k].unique_names = 0
       /\ scenario_3[k].unique_fathers = 2
       /\ \E i \in VotersAt(scenario_3[k].house_number) :
            df[i].father_husband_name = NaN

\* the first record of the frame at a house number
FirstRecordAt(house_num) ==
  CHOOSE i \in VotersAt(house_num) : \A j \in VotersAt(house_num) : i <= j

\* C18: the ADDRESS_ANOMALY findings are in discovery order: the finding of
\* the address whose first record comes earlier in the frame comes first,
\* whatever the order of the house_number values.
C18_AddressDiscoveryOrder ==
  Ran("detect_address_anomalies") =>
    \A k \in 1..Len(scenario_3) : \A l \in 1..Len(scenario_3) :
      FirstRecordAt(scenario_3[k].house_number)
        < FirstRecordAt(scenario_3[l].house_number) => k < l

---------------------------------------------------------------------------
(* Exact-detail matcher: order and matching_fields *)

\* a frame with its records in another order
Permuted(d, order) == [i \in 1..Len(d) |-> d[order[i]]]

\* the unordered pairs of card ids a finding list reports
PairSet(findings) ==
  {{findings[k].card_1, findings[k].card_2} : k \in 1..Len(findings)}

\* C15: for every permutation of the records, detect_scenario_1_fake_details
\* reports the same set of unordered card_id pairs.
C15_ScanOrderSymmetry ==
  Ran("detect_scenario_1_fake_details") =>
    \A order \in Permutations(1..Len(df)) :
      \A other \in {Permuted(df, order)} :
        PairSet(detect_scenario_1_fake_details(other)) = PairSet(scenario_1)

\* C15 witness: a reported pair whose two records differ, one with an age
\* and one without, so that swapping them changes the frame
C15_Witness ==
  /\ Ran("detect_scenario_1_fake_details")
  /\ Len(df) >= 2
  /\ Len(scenario_1) >= 1
  /\ df[1].age # NaN
  /\ df[2].age = NaN
  /\ scenario_1[1].card_1 = df[1].card_id
  /\ scenario_1[1].card_2 = df[2].card_id

\* the fields the contract lists for a reported pair of rows
ListedFields(r1, r2) ==
  <<"name", "father/husband">>
  \o (IF r1.age # NaN /\ r2.age # NaN /\ r1.age = r2.age
      THEN <<"age">> ELSE <<>>)
  \o (IF r1.gender # NaN /\ r2.gender # NaN /\ r1.gender = r2.gender
      THEN <<"gender">> ELSE <<>>)

\* C16: matching_fields of every FAKE_DETAILS finding lists name and
\* father/husband, then age exactly when both records have an age and
\* gender exactly when both have a gender; the confidence is always "100%".
C16_MatchingFields ==
  Ran("detect_scenario_1_fake_details") =>
    \A k \in 1..Len(scenario_1) :
      LET f == scenario_1[k]
          r1 == RowOf(f.card_1)
          r2 == RowOf(f.card_2)
      IN /\ f.matching_fields = join(" + ", ListedFields(r1, r2))
         /\ (r1.age # NaN /\ r2.age # NaN) => r1.age = r2.age
         /\ (r1.gender # NaN /\ r2.gender # NaN) => r1.gender = r2.gender
         /\ f.confidence = "100%"

\* C16 witness: a pair with an age on the first record only and a gender on
\* both lists the gender and not the age
C16_Witness ==
  /\ Ran("detect_scenario_1_fake_details")
  /\ \E k \in 1..Len(scenario_1) :
       /\ RowOf(scenario_1[k].card_1).age # NaN
       /\ RowOf(scenario_1[k].card_2).age = NaN
       /\ RowOf(scenario_1[k].card_1).gender # NaN
       /\ RowOf(scenario_1[k].card_2).gender # NaN
       /\ scenario_1[k].matching_fields = "name + father/husband + gender"
       /\ scenario_1[k].confidence = "100%"

---------------------------------------------------------------------------
(* Aggregator *)

\* the data model's requirements on a record set
UniqueCardIds ==
  \A i \in 1..Len(df) : \A j \in 1..Len(df) :
    df[i].card_id = df[j].card_id => i = j

StructurallyValid == UniqueCardIds /\ Len(df) >= 2

\* C2: for a record set with a repeated card_id, or with fewer than two
\* records, detect_all_frauds ends in an explicit error instead of
\* returning a finding set.
C2_InvalidInputRejected ==
  (outcome["detect_all_frauds"] # NotRun /\ ~StructurallyValid) =>
    outcome["detect_all_frauds"] = Raised

\* the findings of a list that do not come from the face matcher
is_not_fake_face(f) == f.fraud_type # "FAKE_FACE"

\* the embedding cell of row i of the data file is absent or cannot be parsed
NoUsableEmbedding(i) ==
  \/ csv[i].face_encoding = NaN
  \/ csv[i].face_encoding[1] \in MalformedJson \cup {"None"}

\* the data file with the embedding cell of row i holding a valid vector
WithEmbedding(i, text) == [csv EXCEPT ![i].face_encoding = <<text>>]

\* C9: a record whose embedding is malformed or absent is in no FAKE_FACE
\* finding, and the findings of the exact-detail matcher, the photo-hash
\* deduplicator and the address grouping are those the same record set
\* gives when that record has a valid embedding.
C9_UnusableEmbeddingOnlySkipsFace ==
  (Ran("detect_all_frauds") /\ UniqueCardIds) =>
    \A i \in 1..Len(df) :
      NoUsableEmbedding(i) =>
        /\ \A k \in 1..Len(all_frauds) :
             all_frauds[k].fraud_type = "FAKE_FACE" =>
               /\ all_frauds[k].card_1 # df[i].card_id
               /\ all_frauds[k].card_2 # df[i].card_id
        /\ \A text \in {"[0.0]", "[0.2]"} :
             \A valid \in {load_frame(WithEmbedding(i, text))} :
               SelectSeq(all_frauds, is_not_fake_face)
                 = SelectSeq(detect_all_frauds(valid, photos),
                             is_not_fake_face)

\* C9 witness: a record with a malformed embedding is reported by the
\* exact-detail matcher and by the photo deduplicator and is counted in a
\* reported address group
C9_Witness ==
  /\ Ran("detect_all_frauds")
  /\ UniqueCardIds
  /\ \E i \in 1..Len(df) :
       /\ csv[i].face_encoding # NaN
       /\ csv[i].face_encoding[1] \in MalformedJson
       /\ \E k \in 1..Len(all_frauds) :
            /\ all_frauds[k].fraud_type = "FAKE_DETAILS"
            /\ all_frauds[k].card_2 = df[i].card_id
       /\ \E k \in 1..Len(all_frauds) :
            /\ all_frauds[k].fraud_type = "DUPLICATE_PHOTO"
            /\ all_frauds[k].card_2 = df[i].card_id
       /\ \E k \in 1..Len(all_frauds) :
            /\ all_frauds[k].fraud_type = "ADDRESS_ANOMALY"
            /\ df[i].house_number = <<all_frauds[k].house_number>>

---------------------------------------------------------------------------
(* Aggregator: pairs, order, counts and repeated runs *)

PairwiseTypes == {"FAKE_DETAILS", "FAKE_FACE", "DUPLICATE_PHOTO"}

CardIds == {df[i].card_id : i \in 1..Len(df)}

\* the place in the frame of the record with a card id
IndexOf(card_id) == CHOOSE i \in 1..Len(df) : df[i].card_id = card_id

\* the findings of detect_all_frauds with a fraud_type
OfType(type) == {k \in 1..Len(all_frauds) : all_frauds[k].fraud_type = type}

\* C14: with unique card ids, every finding of a pairwise matcher names by
\* card_id two records of the frame, card_1 the earlier one (so never a
\* record with itself), and no matcher reports the same unordered pair
\* twice.
C14_PairsOnceInScanOrder ==
  (Ran("detect_all_frauds") /\ UniqueCardIds) =>
    \A type \in PairwiseTypes :
      /\ \A k \in OfType(type) :
           /\ all_frauds[k].card_1 \in CardIds
           /\ all_frauds[k].card_2 \in CardIds
           /\ IndexOf(all_frauds[k].card_1) < IndexOf(all_frauds[k].card_2)
      /\ \A k \in OfType(type) : \A l \in OfType(type) :
           {all_frauds[k].card_1, all_frauds[k].card_2}
             = {all_frauds[l].card_1, all_frauds[l].card_2} => k = l

\* C14 witness: three records reported pairwise by each of the three
\* matchers
C14_Witness ==
  /\ Ran("detect_all_frauds")
  /\ UniqueCardIds
  /\ \A type \in PairwiseTypes : Cardinality(OfType(type)) = 3

\* the place of a matcher's block in the output
Rank(type) ==
  CASE type = "FAKE_DETAILS" -> 1
    [] type = "FAKE_FACE" -> 2
    [] type = "DUPLICATE_PHOTO" -> 3
    [] type = "ADDRESS_ANOMALY" -> 4

\* a field only the findings of the matcher of a type have
OwnField(type) ==
  CASE type = "FAKE_DETAILS" -> "matching_fields"
    [] type = "FAKE_FACE" -> "face_similarity_percent"
    [] type = "DUPLICATE_PHOTO" -> "hash_difference"
    [] type = "ADDRESS_ANOMALY" -> "voter_count"

\* C17: the output of detect_all_frauds has the FAKE_DETAILS findings, then
\* FAKE_FACE, then DUPLICATE_PHOTO, then ADDRESS_ANOMALY; every finding has
\* the tag of the matcher that made it; and with unique card ids the pairs
\* of a pairwise block come by increasing outer index, then inner index.
C17_BlocksInMatcherOrder ==
  Ran("detect_all_frauds") =>
    /\ \A k \in 1..Len(all_frauds) :
         /\ all_frauds[k].fraud_type \in PairwiseTypes \cup {"ADDRESS_ANOMALY"}
         /\ OwnField(all_frauds[k].fraud_type) \in DOMAIN all_frauds[k]
    /\ \A k \in 1..Len(all_frauds) : \A l \in (k + 1)..Len(all_frauds) :
         /\ Rank(all_frauds[k].fraud_type) <= Rank(all_frauds[l].fraud_type)
         /\ ( /\ UniqueCardIds
              /\ all_frauds[k].fraud_type = all_frauds[l].fraud_type
              /\ all_frauds[k].fraud_type \in PairwiseTypes ) =>
              LET i1 == IndexOf(all_frauds[k].card_1)
                  j1 == IndexOf(all_frauds[k].card_2)
                  i2 == IndexOf(all_frauds[l].card_1)
                  j2 == IndexOf(all_frauds[l].card_2)
              IN i1 < i2 \/ (i1 = i2 /\ j1 < j2)

\* C17 witness: an output with all four blocks, three findings in each
\* pairwise block
C17_Witness ==
  /\ Ran("detect_all_frauds")
  /\ UniqueCardIds
  /\ Len(all_frauds) = 10
  /\ all_frauds[1].fraud_type = "FAKE_DETAILS"
  /\ all_frauds[4].fraud_type = "FAKE_FACE"
  /\ all_frauds[7].fraud_type = "DUPLICATE_PHOTO"
  /\ all_frauds[10].fraud_type = "ADDRESS_ANOMALY"

\* the pairs of places of the frame, earlier record first
Pairs == {pair \in (1..Len(df)) \X (1..Len(df)) : pair[1] < pair[2]}

FaceCriteria(r1, r2) == BothEncoded(r1, r2) /\ Similarity(r1, r2) >= 80 * Pct

PhotoCriteria(r1, r2) ==
  /\ Hashed(r1)
  /\ Hashed(r2)
  /\ hash_sub(HashOf(r1), HashOf(r2)) <= 10

\* how many pairs of records satisfy a matcher's criteria
Satisfying(Criteria(_, _)) ==
  Cardinality({pair \in Pairs : Criteria(df[pair[1]], df[pair[2]])})

CrowdedHouses == {h \in HouseNumbers : Cardinality(VotersAt(h)) >= 30}

\* C19: detect_all_frauds returns one finding per matcher and pair that
\* satisfies the matcher's criteria, and one per crowded address: the total
\* is the sum over the four matchers, and a pair that satisfies the criteria
\* of several matchers has a finding of each.
C19_NoCrossMatcherDeduplication ==
  Ran("detect_all_frauds") =>
    /\ Cardinality(OfType("FAKE_DETAILS")) = Satisfying(DetailCriteria)
    /\ Cardinality(OfType("FAKE_FACE")) = Satisfying(FaceCriteria)
    /\ Cardinality(OfType("DUPLICATE_PHOTO")) = Satisfying(PhotoCriteria)
    /\ Cardinality(OfType("ADDRESS_ANOMALY")) = Cardinality(CrowdedHouses)
    /\ Len(all_frauds)
         = Satisfying(DetailCriteria) + Satisfying(FaceCriteria)
           + Satisfying(PhotoCriteria) + Cardinality(CrowdedHouses)

\* C19 witness: the first two records are reported as a pair by the
\* exact-detail matcher, the face matcher and the photo matcher
C19_Witness ==
  /\ Ran("detect_all_frauds")
  /\ UniqueCardIds
  /\ Len(df) >= 2
  /\ \A type \in PairwiseTypes :
       \E k \in OfType(type) : /\ all_frauds[k].card_1 = df[1].card_id
                               /\ all_frauds[k].card_2 = df[2].card_id

\* C20: a call of detect_all_frauds on a detector that has already run it
\* returns the findings the previous call returned, in the same order.
C20_RepeatedRunIdentical ==
  [][(DetectAllFrauds /\ Ran("detect_all_frauds"))
       => all_frauds' = all_frauds]_vars

\* C20 witness: a second call has returned, with findings of all four
\* matchers
C20_Witness ==
  /\ again
  /\ \A type \in PairwiseTypes \cup {"ADDRESS_ANOMALY"} : OfType(type) # {}

---------------------------------------------------------------------------
(* Confidence range and risk tiers under other thresholds *)

\* C26: the confidence_score of every FAKE_FACE finding is a percentage,
\* between 0 and 100.
C26_ConfidenceIsPercentage ==
  Ran("detect_scenario_2_fake_face") =>
    \A k \in 1..Len(scenario_2) :
      /\ 0 <= scenario_2[k].confidence_score
      /\ scenario_2[k].confidence_score <= 100 * Pct

\* C30: the risk level of every ADDRESS_ANOMALY finding is CRITICAL from 50
\* voters, HIGH from 40 to 49 and MEDIUM below, whatever the threshold of
\* the call: a group of threshold..29 voters is reported as MEDIUM, and
\* under a threshold above 50 every finding is CRITICAL.
C30_RiskLevelIgnoresThreshold ==
  Ran("detect_address_anomalies") =>
    /\ \A k \in 1..Len(scenario_3) :
         LET count == scenario_3[k].voter_count
         IN /\ scenario_3[k].risk_level
                 = (IF count >= 50 THEN "CRITICAL"
                    ELSE IF count >= 40 THEN "HIGH" ELSE "MEDIUM")
            /\ threshold > 50 => scenario_3[k].risk_level = "CRITICAL"
    /\ \A h \in HouseNumbers :
         (threshold <= Cardinality(VotersAt(h)) /\ Cardinality(VotersAt(h)) < 30)
           => \E k \in AnomaliesAt(h) : scenario_3[k].risk_level = "MEDIUM"

\* C30 witness: under threshold 2 a group of 2 voters is reported as MEDIUM
\* beside a group of 30
C30_Witness ==
  /\ Ran("detect_address_anomalies")
  /\ threshold = 2
  /\ \E k \in 1..Len(scenario_3) : /\ scenario_3[k].voter_count = 2
                                   /\ scenario_3[k].risk_level = "MEDIUM"
  /\ \E k \in 1..Len(scenario_3) : scenario_3[k].voter_count = 30

---------------------------------------------------------------------------
(* The record set during a run, and records with missing fields *)

\* C21: no call of a matcher or of detect_all_frauds changes the records
\* of the detector, their order, the CSV or the photo files, and the
\* findings a method returned change only when that method is called again.
C21_RecordSetReadOnly ==
  [][/\ df' = df /\ csv' = csv /\ photos' = photos
     /\ (scenario_1' = scenario_1 \/ DetectScenario1)
     /\ (scenario_2' = scenario_2 \/ DetectScenario2)
     /\ (scenario_2b' = scenario_2b \/ DetectDuplicatePhotos)
     /\ (scenario_3' = scenario_3 \/ DetectAddressAnomalies)
     /\ (all_frauds' = all_frauds \/ DetectAllFrauds)]_vars

\* C21 witness: all five methods have returned findings and the frame is
\* still the one the constructor loaded
C21_Witness ==
  /\ \A m \in Methods : Ran(m)
  /\ scenario_1 # <<>> /\ scenario_2 # <<>> /\ scenario_2b # <<>>
  /\ scenario_3 # <<>> /\ all_frauds # <<>>
  /\ df = load_frame(csv)

\* the elements of a sequence
Range(seq) == {seq[k] : k \in 1..Len(seq)}

\* a list of findings has one for the pair of records
ReportedIn(findings, pair) ==
  \E k \in 1..Len(findings) : /\ findings[k].card_1 = df[pair[1]].card_id
                               /\ findings[k].card_2 = df[pair[2]].card_id

\* C23: whatever cells are missing, no method raises; each matcher reports
\* exactly the pairs that have the fields it requires and satisfy its
\* criteria, whether or not they lack the fields of another matcher; the
\* address matcher counts the records that have a house number; and
\* detect_all_frauds returns the four lists.
C23_MissingFieldNotFailure ==
  /\ \A m \in Methods : outcome[m] # Raised
  /\ Ran("detect_scenario_1_fake_details") =>
       \A pair \in Pairs :
         ReportedIn(scenario_1, pair)
           <=> DetailCriteria(df[pair[1]], df[pair[2]])
  /\ Ran("detect_scenario_2_fake_face") =>
       \A pair \in Pairs :
         ReportedIn(scenario_2, pair)
           <=> FaceCriteria(df[pair[1]], df[pair[2]])
  /\ Ran("detect_exact_duplicate_photos") =>
       \A pair \in Pairs :
         ReportedIn(scenario_2b, pair)
           <=> PhotoCriteria(df[pair[1]], df[pair[2]])
  /\ Ran("detect_address_anomalies") =>
       \A h \in HouseNumbers :
         AnomaliesAt(h) # {} <=> Cardinality(VotersAt(h)) >= threshold
  /\ Ran("detect_all_frauds") =>
       /\ Cardinality(OfType("FAKE_DETAILS")) = Satisfying(DetailCriteria)
       /\ Cardinality(OfType("FAKE_FACE")) = Satisfying(FaceCriteria)
       /\ Cardinality(OfType("DUPLICATE_PHOTO")) = Satisfying(PhotoCriteria)

\* C23 witness: all five methods have returned; the first record has no
\* cell but its card_id, and the second and third have no name, no father
\* and no age but are reported by the face and photo matchers and counted
\* at their address
C23_Witness ==
  /\ \A m \in Methods : Ran(m)
  /\ Len(df) = 3
  /\ \A field \in {"name", "father_husband_name", "age", "gender",
                    "house_number", "face_encoding", "face_path"} :
       df[1][field] = NaN
  /\ df[2].name = NaN /\ df[3].name = NaN
  /\ ReportedIn(scenario_2, <<2, 3>>)
  /\ ReportedIn(scenario_2b, <<2, 3>>)
  /\ ~ReportedIn(scenario_1, <<2, 3>>)
  /\ scenario_3 # <<>>

---------------------------------------------------------------------------
(* The matchers as concurrent workers *)

\* C22: however the iterations of the four matchers are interleaved, each
\* matcher ends with the findings it returns when run alone on the frame,
\* and the concatenation of the four lists in block order is the sequence
\* detect_all_frauds returns.
C22_WorkersIndependent ==
  /\ workers["scenario_1"].pc = "done"
       => workers["scenario_1"].found = detect_scenario_1_fake_details(df)
  /\ workers["scenario_2"].pc = "done"
       => workers["scenario_2"].found = detect_scenario_2_fake_face(df)
  /\ workers["scenario_2b"].pc = "done"
       => workers["scenario_2b"].found
            = detect_exact_duplicate_photos(df, photos)
  /\ workers["scenario_3"].pc = "done"
       => workers["scenario_3"].found = detect_address_anomalies(df, 30)
  /\ (\A w \in Workers : workers[w].pc = "done")
       => merged = detect_all_frauds(df, photos)
  /\ Ran("detect_all_frauds") => all_frauds = detect_all_frauds(df, photos)

\* C22 witness: the four workers have finished and the merged sequence has
\* findings of all four types
C22_Witness ==
  /\ \A w \in Workers : workers[w].pc = "done" /\ workers[w].found # <<>>
  /\ Ran("detect_all_frauds")
  /\ \A type \in PairwiseTypes \cup {"ADDRESS_ANOMALY"} : OfType(type) # {}

---------------------------------------------------------------------------
(* The fields the parser returns *)

\* C25: whatever the OCR text, the age parse_structured_fields returns is
\* absent or an integer from 18 to 120, the gender is absent or one of M and
\* F, and name and father_husband_name are absent or non-empty strings; when
\* the only number after the age label is outside 18..120, age is absent.
C25_ParsedFieldsInDomain ==
  parsed # NaN =>
    LET details == parsed[1]
        numbers == {int([k \in 1..Len(digits[1]) |-> to_arabic(digits[1][k])]) :
                      digits \in {age_digits(line) :
                                    line \in {l \in Range(stripped_lines(ocr_text)) :
                                                contains(l, {"umra"})}}
                                 \ {NaN}}
    IN /\ details.age # NaN => 18 <= details.age[1] /\ details.age[1] <= 120
       /\ details.gender \in {NaN, <<"M">>, <<"F">>}
       /\ details.name # <<"">>
       /\ details.father_husband_name # <<"">>
       /\ (\A age \in numbers : age < 18 \/ age > 120) => details.age = NaN
       /\ details.age # NaN => details.age[1] \in numbers

\* C25 witness: a text with a name line and an age line whose number, 121,
\* is above 120; the parser returned the name and no age
C25_Witness ==
  /\ parsed # NaN
  /\ ocr_text = << <<"nirvachak", " ", "ka", " ", "naam", " ", ":", " ", "Ram", " ">>,
                   <<"umra", ";", "1215", " ", "ling", " ", "pu">> >>
  /\ parsed[1].name = <<"Ram">>
  /\ parsed[1].age = NaN

---------------------------------------------------------------------------
(* The pipeline: summary, report files and card files *)

\* main has run to its end
Finished == statistics # NaN

\* C24: every run that reaches its end reports the number of findings of
\* each of the four fraud types, which add up to the reported total, the
\* number of records, and the fraud rate findings / records (as a
\* percentage with two decimals).
C24_RunSummaryComplete ==
  Finished =>
    /\ summary # NaN
    /\ summary[1].scenario_1 = count_of(all_frauds, "FAKE_DETAILS")
    /\ summary[1].scenario_2 = count_of(all_frauds, "FAKE_FACE")
    /\ summary[1].scenario_2b = count_of(all_frauds, "DUPLICATE_PHOTO")
    /\ summary[1].scenario_3 = count_of(all_frauds, "ADDRESS_ANOMALY")
    /\ summary[1].scenario_1 + summary[1].scenario_2
         + summary[1].scenario_2b + summary[1].scenario_3 = summary[1].total
    /\ statistics[1].frauds = summary[1].total
    /\ statistics[1].voters = Len(csv)
    /\ statistics[1].fraud_rate # NaN
    /\ RoundedFraction(statistics[1].fraud_rate[1],
                       Len(all_frauds) * 100 * Pct, Len(csv), Pct \div 100)

\* C27: after a run that reached its end, fraud_detection_report.csv holds
\* exactly the findings of that run: none after a run without findings.
C27_ReportOfLastRun ==
  Finished =>
    IF all_frauds = <<>> THEN report_file = NaN \/ report_file = <<<<>>>>
    ELSE report_file = <<to_csv(all_frauds)>>

\* the findings of a report that the review has an entry for
Reviewed(report) ==
  LET has_entry(fraud) ==
        fraud.fraud_type \in {<<"FAKE_DETAILS">>, <<"FAKE_FACE">>}
  IN SelectSeq(report, has_entry)

\* C28: on any report that was written, generate_fraud_review_report
\* returns normally, and the review has one entry for each FAKE_DETAILS and
\* FAKE_FACE finding of the report, in their order, with the two cards of
\* the finding, and no other entry.
C28_ReviewAcceptsAnyReport ==
  [][(GenerateFraudReviewReport /\ report_file # NaN) =>
       /\ review_outcome' = Returned
       /\ Len(review_data') = Len(Reviewed(report_file[1]))
       /\ \A k \in 1..Len(review_data') :
            /\ <<review_data'[k].card_1>> = Reviewed(report_file[1])[k].card_1
            /\ <<review_data'[k].card_2>>
                 = Reviewed(report_file[1])[k].card_2]_vars

\* C29: after a run of main on an empty card directory there are as many
\* card files, and as many voter records, each with its own card_id, as
\* cards were counted in total_cards.
C29_CardFilesNeverOverwritten ==
  [][(Main /\ DOMAIN extracted_cards = {} /\ statistics' # NaN) =>
       /\ Cardinality(DOMAIN extracted_cards') = total_cards'
       /\ Len(csv') = total_cards'
       /\ Cardinality({csv'[i].card_id : i \in 1..Len(csv')})
            = total_cards']_vars

====
